---- MODULE Spec2Model ----
(***************************************************************************)
(* ManagedDynamoRepository (unit of work) on top of CachedDynamoRepository *)
(* (promise cache) on top of DynamoRepository, talking to a DocumentClient *)
(* whose answers arrive asynchronously.  One repository instance, one      *)
(* table, key schema [{id, HASH}] and the Entity class, marshal and        *)
(* unMarshal of the managed repository's test set-up.                      *)
(*                                                                         *)
(* Every await of the source is a step boundary: the code between two      *)
(* awaits is one atomic action (single-threaded event loop).               *)
(***************************************************************************)
EXTENDS Integers, Sequences, FiniteSets, Bags, TLC

----------------------------------------------------------------------------
(* Bounds of the model *)

\* entity objects ever allocated (by unMarshal or by the application)
MaxEntities == 2
\* promises ever created by the cache (point reads and seeded entries)
MaxPromises == 4
\* get / trackNew calls ever started
MaxCalls == 2
\* flush calls ever started
MaxFlushes == 2
\* put / delete requests ever sent
MaxOps == 2
\* cache clears
MaxClears == 1
MaxKeys == 2
MaxSearches == 1
MaxPulls == 3

----------------------------------------------------------------------------
(* Values *)

\* hash key values ("id"); the table starts with an item for each stored key
Keys == {"a", "b"}
StoredKeys == {"a"}
FreshKeys == Keys \ StoredKeys
\* values the application gives entity.updated (or undefined: removed)
Vals == {"v0"}
\* values the application gives entity.nested.nestedUpdated
NestedVals == {"v0", "v1"}
\* JavaScript's undefined as an attribute value
Undef == "undefined"
\* undefined where an entity reference, a promise or an error is expected
NoRef == 0
NoPromise == NoRef
NoError == NoRef

Refs == 1..MaxEntities

\* const keySchema = [{AttributeName: "id", KeyType: "HASH"}]
hashKey == "id"

----------------------------------------------------------------------------
(* Serialisation.  An entity object is [id, updated, nested: [nestedUpdated]]*)
(* where an attribute may hold undefined.  JSON text is a token sequence;  *)
(* a marshaled item is a function on the attribute names that are present. *)

\* JSON.stringify of the nested object: undefined properties are left out
StringifyNested(n) ==
    <<"{">> \o (IF n.nestedUpdated = Undef THEN <<>> ELSE <<"nestedUpdated", n.nestedUpdated>>) \o <<"}">>

\* JSON.stringify(entity)
JsonStringify(e) ==
    <<"{", "id", e.id>>
      \o (IF e.updated = Undef THEN <<>> ELSE <<"updated", e.updated>>)
      \o <<"nested">> \o StringifyNested(e.nested) \o <<"}">>

HasToken(s, name) == \E i \in DOMAIN s : s[i] = name
TokenAfter(s, name) == s[(CHOOSE i \in DOMAIN s : s[i] = name) + 1]

\* JSON.parse of a text produced by JsonStringify
JsonParse(s) ==
    [n \in {"id", "nested"} \cup (IF HasToken(s, "updated") THEN {"updated"} ELSE {}) |->
        IF n = "nested"
        THEN [m \in (IF HasToken(s, "nestedUpdated") THEN {"nestedUpdated"} ELSE {}) |->
                  TokenAfter(s, "nestedUpdated")]
        ELSE TokenAfter(s, n)]

\* function marshal(e) { return JSON.parse(JSON.stringify(e)); }
marshal(e) == JsonParse(JsonStringify(e))

Attr(m, n) == IF n \in DOMAIN m THEN m[n] ELSE Undef

\* function unMarshal(m): new Entity(m.id) with updated and nested copied
unMarshal(m) ==
    [id |-> m.id, updated |-> Attr(m, "updated"),
     nested |-> [nestedUpdated |-> Attr(m.nested, "nestedUpdated")]]

\* getEntityKey(keySchema, marshaledEntity): only the schema's attributes
getEntityKey(item) == [n \in {hashKey} |-> item[n]]

\* new Entity(id): updated is undefined, nested has its default
NewEntityObject(k) == [id |-> k, updated |-> Undef, nested |-> [nestedUpdated |-> "v0"]]

\* an item as the test set-up stores it
InitialItem(k) == marshal([id |-> k, updated |-> "v0", nested |-> [nestedUpdated |-> "v0"]])

\* a CREATE or DELETE tracked entry has no initialStatus
NoStatus == <<>>

----------------------------------------------------------------------------
VARIABLES
    store,      \* the table: hash key value -> stored item (absent: no item)
    heap,       \* entity objects: reference -> current attribute values
    known,      \* the references the application holds (created or returned to it)
    cache,      \* CachedDynamoRepository.cache: key -> promise (absent: no entry)
    promises,   \* promises the cache has held: state, value, error, key, kind, epoch
    epoch,      \* number of cache clears so far
    tracked,    \* ManagedDynamoRepository.tracked: reference -> {action, initialStatus}
    tasks,      \* bag of suspended get / trackNew calls
    calls,      \* number of get / trackNew calls started so far
    ops,        \* put / delete requests sent by flush, with their outcome
    flushes,    \* flush calls: pending, resolved or rejected
    events,     \* what the eventEmitter emitted, in order
    cancelled,  \* entities whose pending create was cancelled by delete
    searches    \* the search sequences: page buffer, cursor, exhaustion flags

vars == <<store, heap, known, cache, promises, epoch, tracked, tasks, calls, ops, flushes, events,
          cancelled, searches>>

Settled(p) == promises[p].state # "pending"

NoTracked == [e \in {} |-> [action |-> "UPDATE", initialStatus |-> NoStatus]]

Init ==
    /\ store = [k \in StoredKeys |-> InitialItem(k)]
    /\ heap = <<>>
    /\ known = {}
    /\ cache = [k \in {} |-> NoPromise]
    /\ promises = <<>>
    /\ epoch = 0
    /\ tracked = NoTracked
    /\ tasks = EmptyBag
    /\ calls = 0
    /\ ops = <<>>
    /\ flushes = <<>>
    /\ events = <<>>
    /\ cancelled = {}
    /\ searches = <<>>

----------------------------------------------------------------------------
(* The application's own objects *)

\* const entity = new Entity(id)
NewEntity(k) ==
    /\ Len(heap) < MaxEntities
    /\ heap' = Append(heap, NewEntityObject(k))
    /\ known' = known \cup {Len(heap) + 1}
    /\ UNCHANGED <<searches, store, cache, promises, epoch, tracked, tasks, calls, ops, flushes, events,
                   cancelled>>

\* entity.updated = v  (v may be undefined)
MutateUpdated(e, v) ==
    /\ e \in DOMAIN tracked
    /\ heap[e].updated # v
    /\ heap' = [heap EXCEPT ![e].updated = v]
    /\ UNCHANGED <<searches, store, known, cache, promises, epoch, tracked, tasks, calls, ops, flushes,
                   events, cancelled>>

\* entity.nested.nestedUpdated = v  (v may be undefined)
MutateNested(e, v) ==
    /\ e \in DOMAIN tracked
    /\ heap[e].nested.nestedUpdated # v
    /\ heap' = [heap EXCEPT ![e].nested.nestedUpdated = v]
    /\ UNCHANGED <<searches, store, known, cache, promises, epoch, tracked, tasks, calls, ops, flushes,
                   events, cancelled>>

----------------------------------------------------------------------------
(* ManagedDynamoRepository.track *)

\* track that takes a tracked entity for newly observed
trackAgain(tr, h, e) ==
    IF e = NoRef THEN tr
    ELSE [x \in DOMAIN tr \cup {e} |->
            IF x = e THEN [action |-> "UPDATE", initialStatus |-> JsonStringify(h[e])]
            ELSE tr[x]]
\* track that takes the stored item, not the object, for the snapshot
trackAsStored(tr, h, e) ==
    IF e = NoRef THEN tr
    ELSE IF e \in DOMAIN tr THEN tr
    ELSE [x \in DOMAIN tr \cup {e} |->
            IF x = e THEN [action |-> "UPDATE",
                           initialStatus |-> IF h[e].id \in DOMAIN store
                                             THEN JsonStringify(unMarshal(store[h[e].id]))
                                             ELSE JsonStringify(h[e])]
            ELSE tr[x]]
\* track(entity)
track(tr, h, e) ==
    IF e = NoRef THEN tr
    ELSE IF e \in DOMAIN tr THEN tr
    ELSE [x \in DOMAIN tr \cup {e} |->
            IF x = e THEN [action |-> "UPDATE", initialStatus |-> JsonStringify(h[e])]
            ELSE tr[x]]

----------------------------------------------------------------------------
(* get: ManagedDynamoRepository.get -> CachedDynamoRepository.get ->       *)
(* DynamoRepository.get -> dc.get                                          *)

Task(type, k, e, p, pc) ==
    [type |-> type, key |-> k, entity |-> e, promise |-> p, pc |-> pc,
     keys |-> <<>>, notCached |-> <<>>, request |-> <<>>, response |-> <<>>, result |-> <<>>,
     i |-> 0]

NewPromise(state, value, k, kind) ==
    [state |-> state, value |-> value, error |-> NoError, key |-> k, kind |-> kind,
     epoch |-> epoch]

Event(type, error, e, p, f) ==
    [type |-> type, error |-> error, entity |-> e, cached |-> p, flush |-> f]

\* A suspended call is ready when what it awaits is settled, or is no promise
\* at all (await undefined): its continuation is a queued promise job.  The
\* DocumentClient calls back from I/O events, and the job queue is drained
\* before the next one is handled.
Ready(t) ==
    /\ t.pc \notin {"batch", "page"}
    /\ t.pc = "track" \/ t.promise = NoPromise \/ promises[t.promise].state # "pending"
JobsDrained == \A t \in DOMAIN tasks : ~Ready(t)

\* get never finds an entry: every call sends a point read
CacheHasNever(k) == FALSE
\* get takes an entry that resolved to undefined for no entry
CacheHasEntity(k) ==
    /\ k \in DOMAIN cache
    /\ ~(promises[cache[k]].state = "resolved" /\ promises[cache[k]].value = NoRef)
\* get takes an entry whose read failed for no entry, and reads again
CacheHasUnlessFailed(k) ==
    /\ k \in DOMAIN cache
    /\ promises[cache[k]].state # "rejected"
\* get takes the entry of an entity marked for deletion for no entry
CacheHasUndeleted(k) ==
    /\ k \in DOMAIN cache
    /\ ~(/\ promises[cache[k]].state = "resolved"
         /\ promises[cache[k]].value \in DOMAIN tracked
         /\ tracked[promises[cache[k]].value].action = "DELETE")
\* this.cache.has(hash) && this.cache.get(hash).has(range)
CacheHas(k) == k \in DOMAIN cache

\* the entry is never written
CacheSetDropped(c, k, p) == c
\* a cache of one entry: installing an entry drops the others
CacheSetEvicting(c, k, p) == [x \in {k} |-> p]
\* this.cache.get(hash).set(range, promise)
CacheSet(c, k, p) == [x \in DOMAIN c \cup {k} |-> IF x = k THEN p ELSE c[x]]

\* CachedDynamoRepository.getFromCache
getFromCache(k) == IF k \in DOMAIN cache THEN cache[k] ELSE NoPromise

\* The synchronous part of get(key): the cache entry is installed, and the
\* point read sent, before anything else can run.
GetCall(k) ==
    /\ calls < MaxCalls
    /\ calls' = calls + 1
    /\ IF CacheHas(k)
       THEN /\ tasks' = tasks (+) SetToBag({Task("get", k, NoRef, cache[k], "await")})
            /\ UNCHANGED <<cache, promises>>
       ELSE /\ Len(promises) < MaxPromises
            /\ promises' = Append(promises, NewPromise("pending", NoRef, k, "read"))
            /\ cache' = CacheSet(cache, k, Len(promises) + 1)
            /\ tasks' = tasks (+) SetToBag({Task("get", k, NoRef, Len(promises) + 1, "await")})
    /\ UNCHANGED <<searches, store, heap, known, epoch, tracked, ops, flushes, events, cancelled>>

\* dc.get answers: DynamoRepository.get unmarshals the item into a new object,
\* or resolves to undefined when there is no item.
RespondGet(p) ==
    /\ JobsDrained
    /\ promises[p].state = "pending"
    /\ LET k == promises[p].key IN
       IF k \in DOMAIN store
       THEN /\ Len(heap) < MaxEntities
            /\ heap' = Append(heap, unMarshal(store[k]))
            /\ promises' = [promises EXCEPT ![p].state = "resolved", ![p].value = Len(heap) + 1]
       ELSE /\ promises' = [promises EXCEPT ![p].state = "resolved"]
            /\ UNCHANGED heap
    /\ UNCHANGED <<searches, store, known, cache, epoch, tracked, tasks, calls, ops, flushes, events,
                   cancelled>>

\* dc.get fails: the promise rejects with the store's error
RespondGetFail(p) ==
    /\ JobsDrained
    /\ promises[p].state = "pending"
    /\ promises' = [promises EXCEPT ![p].state = "rejected", ![p].error = p]
    /\ UNCHANGED <<searches, store, heap, known, cache, epoch, tracked, tasks, calls, ops, flushes, events,
                   cancelled>>

\* ManagedDynamoRepository.get after its await: track the entity, return it
GetResume(t) ==
    /\ t.type = "get"
    /\ Settled(t.promise)
    /\ tasks' = tasks (-) SetToBag({t})
    /\ LET p == promises[t.promise] IN
       IF p.state = "resolved"
       THEN /\ tracked' = track(tracked, heap, p.value)
            /\ known' = known \cup ({p.value} \ {NoRef})
            /\ cancelled' = cancelled \ {p.value}
       ELSE UNCHANGED <<tracked, known, cancelled>>
    /\ UNCHANGED <<searches, store, heap, cache, promises, epoch, calls, ops, flushes, events>>

\* Another client of the table creates an item, between two turns of this
\* program's event loop
ExternalPut(k) ==
    /\ JobsDrained
    /\ k \notin DOMAIN store
    /\ store' = [x \in DOMAIN store \cup {k} |-> IF x = k THEN InitialItem(k) ELSE store[x]]
    /\ UNCHANGED <<searches, heap, known, cache, promises, epoch, tracked, tasks, calls, ops, flushes,
                   events, cancelled>>

\* CachedDynamoRepository.clear
clear ==
    /\ epoch < MaxClears
    /\ cache' = [k \in {} |-> NoPromise]
    /\ epoch' = epoch + 1
    /\ UNCHANGED <<searches, store, heap, known, promises, tracked, tasks, calls, ops, flushes, events,
                   cancelled>>

----------------------------------------------------------------------------
(* trackNew: ManagedDynamoRepository.trackNew -> CachedDynamoRepository    *)
(* .addToCache -> addToCacheByKey                                          *)

\* The synchronous part of trackNew(entity): the key is derived and the cache
\* entry read; addToCacheByKey then awaits that entry (or undefined).
TrackNewCall(e) ==
    /\ calls < MaxCalls
    /\ calls' = calls + 1
    /\ LET k == getEntityKey(marshal(heap[e]))[hashKey] IN
       tasks' = tasks (+) SetToBag({Task("trackNew", k, e, getFromCache(k), "addToCache")})
    /\ UNCHANGED <<searches, store, heap, known, cache, promises, epoch, tracked, ops, flushes,
                   events, cancelled>>

\* addToCacheByKey(t.key, t.entity) after its await, called by t, which goes
\* on as next
addToCacheByKey(t, next) ==
    /\ t.promise # NoPromise => Settled(t.promise)
    /\ LET currentCached == IF t.promise = NoPromise THEN NoRef ELSE promises[t.promise].value
           rejected == t.promise # NoPromise /\ promises[t.promise].state = "rejected"
       IN  IF rejected
           THEN \* the awaited entry rejected: the caller rejects too
                /\ tasks' = tasks (-) SetToBag({t})
                /\ UNCHANGED <<cache, promises, events>>
           ELSE IF currentCached # NoRef
           THEN /\ events' = IF currentCached # t.entity
                             THEN Append(events, Event("cacheKeyInUse", NoError, t.entity,
                                                       getFromCache(t.key), 0))
                             ELSE events
                /\ tasks' = (tasks (-) SetToBag({t})) (+) SetToBag({next})
                /\ UNCHANGED <<cache, promises>>
           ELSE /\ Len(promises) < MaxPromises
                /\ promises' = Append(promises, NewPromise("resolved", t.entity, t.key, "seed"))
                /\ cache' = CacheSet(cache, t.key, Len(promises) + 1)
                /\ tasks' = (tasks (-) SetToBag({t})) (+) SetToBag({next})
                /\ UNCHANGED events
    /\ UNCHANGED <<searches, store, heap, known, epoch, tracked, calls, ops, flushes, cancelled>>

\* trackNew: addToCache -> addToCacheByKey after its await
AddToCacheResume(t) ==
    /\ t.type = "trackNew" /\ t.pc = "addToCache"
    /\ addToCacheByKey(t, [t EXCEPT !.pc = "track"])

\* trackNew after addToCache
TrackNewResume(t) ==
    /\ t.type = "trackNew" /\ t.pc = "track"
    /\ tasks' = tasks (-) SetToBag({t})
    /\ IF t.entity \in DOMAIN tracked
       THEN UNCHANGED <<tracked, cancelled>>
       ELSE /\ tracked' = [x \in DOMAIN tracked \cup {t.entity} |->
                             IF x = t.entity
                             THEN [action |-> "CREATE", initialStatus |-> NoStatus]
                             ELSE tracked[x]]
            /\ cancelled' = cancelled \ {t.entity}
    /\ UNCHANGED <<searches, store, heap, known, cache, promises, epoch, calls, ops, flushes, events>>

----------------------------------------------------------------------------
(* ManagedDynamoRepository.delete *)

\* the tracked table after delete(entity), when delete never drops an entry
deleteTrackedAlwaysMarks(tr, e) ==
    [x \in DOMAIN tr \cup {e} |->
        IF x = e THEN [action |-> "DELETE", initialStatus |-> NoStatus] ELSE tr[x]]
\* delete that marks the entry and leaves its snapshot in it
deleteTrackedKeepsStatus(tr, e) ==
    IF e \in DOMAIN tr /\ tr[e].action = "CREATE"
    THEN [x \in DOMAIN tr \ {e} |-> tr[x]]
    ELSE [x \in DOMAIN tr \cup {e} |->
            IF x = e THEN [action |-> "DELETE",
                           initialStatus |-> IF e \in DOMAIN tr THEN tr[e].initialStatus
                                             ELSE NoStatus]
            ELSE tr[x]]
\* the tracked table after delete(entity)
deleteTracked(tr, e) ==
    IF e \in DOMAIN tr /\ tr[e].action = "CREATE"
    THEN [x \in DOMAIN tr \ {e} |-> tr[x]]
    ELSE [x \in DOMAIN tr \cup {e} |->
            IF x = e THEN [action |-> "DELETE", initialStatus |-> NoStatus] ELSE tr[x]]

\* delete(entity); a call that leaves the table as it is changes nothing
delete(e) ==
    /\ tracked' = deleteTracked(tracked, e)
    /\ tracked' # tracked
    /\ cancelled' = IF e \in DOMAIN tracked /\ tracked[e].action = "CREATE"
                    THEN cancelled \cup {e}
                    ELSE cancelled \ {e}
    /\ UNCHANGED <<searches, store, heap, known, cache, promises, epoch, tasks, calls, ops, flushes, events>>

\* clearTrackedEntities(): this.tracked = new Map()
clearTrackedEntities ==
    /\ tracked # NoTracked
    /\ tracked' = NoTracked
    /\ UNCHANGED <<searches, store, heap, known, cache, promises, epoch, tasks, calls, ops, flushes, events,
                   cancelled>>

----------------------------------------------------------------------------
(* flush: ManagedDynamoRepository.flush, createItem, updateItem, deleteItem *)

Op(f, e, action, kind, payload) ==
    [flush |-> f, entity |-> e, action |-> action, kind |-> kind, payload |-> payload,
     status |-> "pending", error |-> NoError, applied |-> 0]

\* every tracked UPDATE entity is put, changed or not
entityHasChangedAlways(e) == TRUE
\* JSON.stringify(entity) !== this.tracked.get(entity).initialStatus
entityHasChanged(e) == JsonStringify(heap[e]) # tracked[e].initialStatus

\* only the key attributes are put
updateItemKeyOnly(f, e) ==
    IF ~entityHasChanged(e) THEN <<>>
    ELSE <<Op(f, e, "UPDATE", "put", getEntityKey(marshal(heap[e])))>>
\* updateItem up to its await: nothing is sent for an unchanged entity
updateItem(f, e) ==
    IF ~entityHasChanged(e) THEN <<>>
    ELSE <<Op(f, e, "UPDATE", "put", marshal(heap[e]))>>

\* a new entity is put only once it differs from a fresh object
createItemIfTouched(f, e) ==
    IF heap[e] = NewEntityObject(heap[e].id) THEN <<>>
    ELSE <<Op(f, e, "CREATE", "put", marshal(heap[e]))>>
\* createItem up to its await
createItem(f, e) == <<Op(f, e, "CREATE", "put", marshal(heap[e]))>>

\* the whole marshaled item is sent as the key
deleteItemWholeItem(f, e) == <<Op(f, e, "DELETE", "delete", marshal(heap[e]))>>
\* deleteItem: the request is sent and its promise returned
deleteItem(f, e) == <<Op(f, e, "DELETE", "delete", getEntityKey(marshal(heap[e])))>>

\* the switch of flush
Dispatch(f, e) ==
    CASE tracked[e].action = "UPDATE" -> updateItem(f, e)
      [] tracked[e].action = "DELETE" -> deleteItem(f, e)
      [] tracked[e].action = "CREATE" -> createItem(f, e)

\* for (const entityConfig of this.tracked.values()), over the references 1..n
RECURSIVE Processed(_, _)
Processed(f, n) ==
    IF n = 0 THEN <<>>
    ELSE Processed(f, n - 1) \o (IF n \in DOMAIN tracked THEN Dispatch(f, n) ELSE <<>>)

\* What a flush call finds in the tracked table (and what was cancelled before it)
Seen ==
    [e \in DOMAIN tracked \cup cancelled |->
        IF e \in cancelled THEN "cancelled"
        ELSE IF tracked[e].action # "UPDATE" THEN tracked[e].action
        ELSE IF JsonStringify(heap[e]) = tracked[e].initialStatus THEN "unchanged"
        ELSE "changed"]

\* The synchronous part of flush(): every request is built and sent.  When
\* nothing is sent, Promise.all resolves and "flushed" is emitted.
flush ==
    /\ Len(flushes) < MaxFlushes
    /\ LET f == Len(flushes) + 1
           sent == Processed(f, Len(heap))
       IN  /\ Len(ops) + Len(sent) <= MaxOps
           /\ ops' = ops \o sent
           /\ flushes' = Append(flushes,
                  [status |-> IF sent = <<>> THEN "resolved" ELSE "pending",
                   error |-> NoError,
                   seen |-> Seen,
                   entities |-> [e \in {x \in DOMAIN tracked : Seen[x] \in {"CREATE", "changed"}}
                                   |-> heap[e]]])
           /\ events' = IF sent = <<>>
                        THEN Append(events, Event("flushed", NoError, NoRef, NoPromise, f))
                        ELSE events
    /\ UNCHANGED <<searches, store, heap, known, cache, promises, epoch, tracked, tasks, calls,
                   cancelled>>

OpsOf(f) == {i \in DOMAIN ops : ops[i].flush = f}
Applied == Cardinality({i \in DOMAIN ops : ops[i].status = "ok"})

\* the table after a request that carries the entity itself: what is written
\* is the entity's state when the store handles the request
StoreApplyLive(op) ==
    LET k == op.payload[hashKey] IN
    IF op.kind = "put"
    THEN [x \in DOMAIN store \cup {k} |-> IF x = k THEN marshal(heap[op.entity]) ELSE store[x]]
    ELSE [x \in DOMAIN store \ {k} |-> store[x]]
\* FakeDocumentClient.put / delete on the table
StoreApply(op) ==
    LET k == op.payload[hashKey] IN
    IF op.kind = "put"
    THEN [x \in DOMAIN store \cup {k} |-> IF x = k THEN op.payload ELSE store[x]]
    ELSE [x \in DOMAIN store \ {k} |-> store[x]]

\* a put that succeeds takes a new snapshot of the entity it wrote
trackedRebaselined(op) ==
    IF op.action = "UPDATE" /\ op.entity \in DOMAIN tracked
    THEN [tracked EXCEPT ![op.entity].initialStatus = JsonStringify(heap[op.entity])]
    ELSE tracked
\* createItem / updateItem / deleteItem after their await: the tracked table
\* is not touched
trackedAfterWrite(op) == tracked

\* the flush resolves with the first request that succeeds
AllFulfilledAtFirst(f, i) == TRUE
\* Promise.all(processed) fulfils when request i was the last one outstanding
AllFulfilled(f, i) == \A j \in OpsOf(f) \ {i} : ops[j].status = "ok"

\* dc.put / dc.delete succeeds.  The flush resolves, and emits "flushed",
\* when this was the last of its requests and none failed.
RespondWrite(i) ==
    /\ JobsDrained
    /\ ops[i].status = "pending"
    /\ store' = StoreApply(ops[i])
    /\ ops' = [ops EXCEPT ![i].status = "ok", ![i].applied = Applied + 1]
    /\ LET f == ops[i].flush IN
       IF flushes[f].status = "pending" /\ AllFulfilled(f, i)
       THEN /\ flushes' = [flushes EXCEPT ![f].status = "resolved"]
            /\ events' = Append(events, Event("flushed", NoError, NoRef, NoPromise, f))
       ELSE UNCHANGED <<flushes, events>>
    /\ tracked' = trackedAfterWrite(ops[i])
    /\ UNCHANGED <<searches, heap, known, cache, promises, epoch, tasks, calls, cancelled>>

\* What the catch block around the request emits.  deleteItem returns the
\* promise of asyncDelete without awaiting it, so its catch block never sees
\* the rejection.
Caught(op, err) ==
    CASE op.action = "CREATE" -> <<Event("error.creating", err, op.entity, NoPromise, op.flush)>>
      [] op.action = "UPDATE" -> <<Event("error.updating", err, op.entity, NoPromise, op.flush)>>
      [] op.action = "DELETE" -> <<>>

\* dc.put / dc.delete fails with a new error.  Promise.all rejects on the
\* first rejection: flush emits "error.flushing" and rethrows.
RespondWriteFail(i) ==
    /\ JobsDrained
    /\ ops[i].status = "pending"
    /\ ops' = [ops EXCEPT ![i].status = "failed", ![i].error = i]
    /\ LET f == ops[i].flush IN
       IF flushes[f].status = "pending"
       THEN /\ flushes' = [flushes EXCEPT ![f].status = "rejected", ![f].error = i]
            /\ events' = events \o Caught(ops[i], i)
                           \o <<Event("error.flushing", NoError, NoRef, NoPromise, f)>>
       ELSE /\ events' = events \o Caught(ops[i], i)
            /\ UNCHANGED flushes
    /\ UNCHANGED <<searches, store, heap, known, cache, promises, epoch, tracked, tasks, calls,
                   cancelled>>

----------------------------------------------------------------------------
(* Specifications *)

----------------------------------------------------------------------------
(* getList: ManagedDynamoRepository.getList -> CachedDynamoRepository      *)
(* .getList -> DynamoRepository.getList -> dc.batchGet                     *)

\* a key object of the table's schema; the positions of a key list stand
\* for its key objects
KeyObject(k) == [n \in {hashKey} |-> k]
KeyLists == UNION {[1..n -> {KeyObject(k) : k \in Keys}] : n \in 1..MaxKeys}

\* key objects as DocumentClient.Key admits them: the table's key alone, or
\* with one more attribute
sortKey == "sort"
AnyKeyObjects ==
    {KeyObject(k) : k \in Keys} \cup
    {[n \in {hashKey, sortKey} |-> IF n = hashKey THEN k ELSE "1"] : k \in Keys}
AnyKeyLists == UNION {[1..n -> AnyKeyObjects] : n \in 1..MaxKeys}

\* function sameKey(key1, key2)
sameKey(key1, key2) == \A n \in DOMAIN key1 : Attr(key2, n) = key1[n]

\* the batch read asks for every key object it was given
uniqueKeysKeepsAll(arrArg) == arrArg
\* function uniqueKeys(arrArg)
RECURSIVE uniqueKeys(_)
uniqueKeys(arrArg) ==
    IF arrArg = <<>> THEN <<>>
    ELSE LET output == uniqueKeys(SubSeq(arrArg, 1, Len(arrArg) - 1))
             key == arrArg[Len(arrArg)]
         IN  IF \E j \in DOMAIN output : sameKey(key, output[j]) THEN output
             ELSE Append(output, key)

\* getList takes no key for cached
keyIsCachedNever(key) == FALSE
\* CachedDynamoRepository.keyIsCached
keyIsCached(key) == key[hashKey] \in DOMAIN cache

\* keys.find((k) => sameKey(k, entityKey)): the first position, 0 for none
Find(keys, entityKey) ==
    IF \E m \in DOMAIN keys : sameKey(keys[m], entityKey)
    THEN CHOOSE m \in DOMAIN keys :
            /\ sameKey(keys[m], entityKey)
            /\ \A l \in 1..(m - 1) : ~sameKey(keys[l], entityKey)
    ELSE 0

\* map.get(key), for the key object at position j
MapGet(map, j) == IF j \in DOMAIN map THEN map[j] ELSE NoRef

\* a key whose value is undefined is left out of the map
ResultSetDefined(result, j, v) ==
    IF v = NoRef THEN result
    ELSE [x \in DOMAIN result \cup {j} |-> IF x = j THEN v ELSE result[x]]
\* result.set(key, value), for the key object at position j
ResultSet(result, j, v) == [x \in DOMAIN result \cup {j} |-> IF x = j THEN v ELSE result[x]]

\* what a settled (or absent) promise yields to the one that awaits it
Awaited(p) == IF p = NoPromise THEN NoRef ELSE promises[p].value
Rejected(p) == p # NoPromise /\ promises[p].state = "rejected"

\* The synchronous part of getList(keys): the keys without a cache entry are
\* collected and one batch read is sent for them; nothing is installed in
\* the cache.  With every key cached the call goes on to collect the entries.
GetListCall(keys) ==
    /\ calls < MaxCalls
    /\ calls' = calls + 1
    /\ LET notCached == SelectSeq([j \in 1..Len(keys) |-> j], LAMBDA j : ~keyIsCached(keys[j]))
           notCachedKeys == [m \in 1..Len(notCached) |-> keys[notCached[m]]]
           call == [Task("getList", keys[1][hashKey], NoRef, NoPromise, "batch") EXCEPT
                       !.keys = keys, !.notCached = notCached,
                       !.result = <<>>]
       IN  IF notCached # <<>>
           THEN tasks' = tasks (+) SetToBag({[call EXCEPT !.request = uniqueKeys(notCachedKeys)]})
           ELSE tasks' = tasks (+) SetToBag({[call EXCEPT !.pc = "collect", !.i = 1,
                                                 !.promise = getFromCache(keys[1][hashKey])]})
    /\ UNCHANGED <<searches, store, heap, known, cache, promises, epoch, tracked, ops, flushes, events,
                   cancelled>>

\* dc.batchGet answers with the items found, in the order of the request.
\* DynamoRepository.getList unmarshals each into a new object and files it
\* under the first key object that matches; CachedDynamoRepository.getList
\* then starts offering the first key's entity to the cache.
RespondBatch(t) ==
    /\ JobsDrained
    /\ t.type = "getList" /\ t.pc = "batch"
    /\ LET found == SelectSeq(t.request, LAMBDA key : key[hashKey] \in DOMAIN store)
           entity(j) == unMarshal(store[found[j][hashKey]])
           notCachedKeys == [m \in 1..Len(t.notCached) |-> t.keys[t.notCached[m]]]
           filed(m) == {j \in 1..Len(found) :
                           Find(notCachedKeys, getEntityKey(marshal(entity(j)))) = m}
           response == [m \in {x \in 1..Len(t.notCached) : filed(x) # {}} |->
                           Len(heap) + (CHOOSE j \in filed(m) : \A l \in filed(m) : l <= j)]
           key == t.keys[t.notCached[1]][hashKey]
       IN  /\ Len(heap) + Len(found) <= MaxEntities
           /\ heap' = heap \o [j \in 1..Len(found) |-> entity(j)]
           /\ tasks' = (tasks (-) SetToBag({t})) (+)
                       SetToBag({[t EXCEPT !.response = response, !.i = 1, !.key = key,
                                           !.entity = MapGet(response, 1),
                                           !.promise = getFromCache(key), !.pc = "add"]})
    /\ UNCHANGED <<searches, store, known, cache, promises, epoch, tracked, calls, ops, flushes, events,
                   cancelled>>

\* dc.batchGet fails: getList rejects
RespondBatchFail(t) ==
    /\ JobsDrained
    /\ t.type = "getList" /\ t.pc = "batch"
    /\ tasks' = tasks (-) SetToBag({t})
    /\ UNCHANGED <<searches, store, heap, known, cache, promises, epoch, tracked, calls, ops, flushes,
                   events, cancelled>>

\* await this.addToCacheByKey(key, entity): addToCacheByKey after its await
ListAddResume(t) ==
    /\ t.type = "getList" /\ t.pc = "add"
    /\ addToCacheByKey(t, [t EXCEPT !.promise = NoPromise, !.pc = "added"])

\* addToCacheByKey has returned: the entry of the key is read and awaited
ListAdded(t) ==
    /\ t.type = "getList" /\ t.pc = "added"
    /\ tasks' = (tasks (-) SetToBag({t})) (+)
                SetToBag({[t EXCEPT !.promise = getFromCache(t.key), !.pc = "read"]})
    /\ UNCHANGED <<searches, store, heap, known, cache, promises, epoch, tracked, calls, ops, flushes,
                   events, cancelled>>

\* result.set(key, await this.getFromCache(key)) for a key that was not
\* cached; then the next such key is offered, or the last loop starts
ListReadResume(t) ==
    /\ t.type = "getList" /\ t.pc = "read"
    /\ t.promise # NoPromise => Settled(t.promise)
    /\ LET result == ResultSet(t.result, t.notCached[t.i], Awaited(t.promise))
           nextKey == t.keys[t.notCached[t.i + 1]][hashKey]
       IN  tasks' = (tasks (-) SetToBag({t})) (+)
             (IF Rejected(t.promise) THEN EmptyBag
              ELSE IF t.i < Len(t.notCached)
              THEN SetToBag({[t EXCEPT !.result = result, !.i = t.i + 1, !.key = nextKey,
                                       !.entity = MapGet(t.response, t.i + 1),
                                       !.promise = getFromCache(nextKey), !.pc = "add"]})
              ELSE SetToBag({[t EXCEPT !.result = result, !.i = 1, !.key = t.keys[1][hashKey],
                                       !.entity = NoRef,
                                       !.promise = getFromCache(t.keys[1][hashKey]),
                                       !.pc = "collect"]}))
    /\ UNCHANGED <<searches, store, heap, known, cache, promises, epoch, tracked, calls, ops, flushes,
                   events, cancelled>>

\* result.set(key, await this.getFromCache(key)) for every key of the input
ListCollectResume(t) ==
    /\ t.type = "getList" /\ t.pc = "collect"
    /\ t.promise # NoPromise => Settled(t.promise)
    /\ LET result == ResultSet(t.result, t.i, Awaited(t.promise))
           nextKey == t.keys[t.i + 1][hashKey]
       IN  tasks' = (tasks (-) SetToBag({t})) (+)
             (IF Rejected(t.promise) THEN EmptyBag
              ELSE IF t.i < Len(t.keys)
              THEN SetToBag({[t EXCEPT !.result = result, !.i = t.i + 1, !.key = nextKey,
                                       !.promise = getFromCache(nextKey)]})
              ELSE SetToBag({[t EXCEPT !.result = result, !.promise = NoPromise,
                                       !.pc = "track"]}))
    /\ UNCHANGED <<searches, store, heap, known, cache, promises, epoch, tracked, calls, ops, flushes,
                   events, cancelled>>

\* for (const entity of list.values()) this.track(entity)
RECURSIVE trackAll(_, _, _)
trackAll(tr, h, list) ==
    IF list = <<>> THEN tr ELSE trackAll(track(tr, h, Head(list)), h, Tail(list))

\* ManagedDynamoRepository.getList after its await: track what the list
\* holds, return it
ListTrackResume(t) ==
    /\ t.type = "getList" /\ t.pc = "track"
    /\ tasks' = tasks (-) SetToBag({t})
    /\ tracked' = trackAll(tracked, heap, t.result)
    /\ known' = known \cup ({t.result[j] : j \in DOMAIN t.result} \ {NoRef})
    /\ cancelled' = cancelled \ {t.result[j] : j \in DOMAIN t.result}
    /\ UNCHANGED <<searches, store, heap, cache, promises, epoch, calls, ops, flushes, events>>


----------------------------------------------------------------------------
(* search: ManagedDynamoRepository.search -> CachedDynamoRepository.search *)
(* -> DynamoRepository.search -> buildScanBlockGenerator -> dc.scan/query  *)

\* the order in which the table is scanned
KeyOrder == <<"a", "b">>
Pos(k) == CHOOSE j \in DOMAIN KeyOrder : KeyOrder[j] = k
\* the keys of the stored items that follow the cursor
Remaining(cursor) ==
    SelectSeq(KeyOrder, LAMBDA k : k \in DOMAIN store /\ (cursor = Undef \/ Pos(k) > Pos(cursor)))

\* A search input: the starting cursor, the keys of the items its filter
\* expression lets through, whether it names an index whose projection is not
\* ALL, and whether it has a KeyConditionExpression.
SearchInput(start, matching, projected, query) ==
    [ExclusiveStartKey |-> start, matching |-> matching, projected |-> projected,
     query |-> query]
PlainInput == SearchInput(Undef, Keys, FALSE, FALSE)
SearchInputs ==
    {SearchInput(start, matching, projected, query) :
        start \in {Undef, "a"}, matching \in {Keys, {"b"}}, projected \in BOOLEAN,
        query \in BOOLEAN}

\* every page is read with scan
isQueryInputNever(input) == "scan"
\* DynamoRepository.isQueryInput, as the name of the store operation
isQueryInput(input) == IF input.query THEN "query" ELSE "scan"

\* The pages the store may answer a request with: it evaluates the items that
\* follow the cursor up to any of them, returns those the filter lets
\* through, and gives the key of the last one evaluated as LastEvaluatedKey
\* when items remain, and possibly also when none remain.
Pages(cursor, matching) ==
    LET remaining == Remaining(cursor) IN
    IF remaining = <<>> THEN {[Items |-> <<>>, LastEvaluatedKey |-> Undef]}
    ELSE {[Items |-> LET passed == SelectSeq(SubSeq(remaining, 1, n[1]), LAMBDA k : k \in matching)
                     IN  [j \in 1..Len(passed) |-> store[passed[j]]],
           LastEvaluatedKey |-> n[2]] :
            n \in {<<m, x>> \in (1..Len(remaining)) \X (Keys \cup {Undef}) :
                      \/ x = remaining[m]
                      \/ x = Undef /\ m = Len(remaining)}}

\* search(input): the closures of DynamoRepository.search (batch,
\* sourceIsEmpty) and buildScanBlockGenerator (lastEvaluatedKey, its own
\* sourceIsEmpty); no request is sent
\* requests, answers and delivered record what was asked of the store, what
\* it answered and what the pulls returned
SearchCall(input) ==
    /\ Len(searches) < MaxSearches
    /\ searches' = Append(searches, [batch |-> <<>>, sourceIsEmpty |-> FALSE,
                                     lastEvaluatedKey |-> input.ExclusiveStartKey,
                                     blockIsEmpty |-> FALSE, pulls |-> 0, input |-> input,
                                     inputIsQuery |-> isQueryInput(input),
                                     requests |-> <<>>, answers |-> <<>>, delivered |-> <<>>])
    /\ UNCHANGED <<store, heap, known, cache, promises, epoch, tracked, tasks, calls, ops,
                   flushes, events, cancelled>>

\* The loop of DynamoRepository.search's generator, entered by pull t of
\* sequence s whose closures are g: request a page while the buffer is empty
\* and the source is not exhausted, else return undefined or unmarshal the
\* item shifted off the buffer.  A block generator that is exhausted returns
\* undefined, and reading its Items throws: the pull rejects.
PullLoop(s, g, t, others) ==
    IF g.batch = <<>> /\ ~g.sourceIsEmpty
    THEN /\ searches' =
              [searches EXCEPT ![s] =
                  IF g.blockIsEmpty THEN g
                  ELSE [g EXCEPT !.requests =
                           Append(@, [op |-> g.inputIsQuery, cursor |-> g.lastEvaluatedKey,
                                      buffered |-> Len(g.batch)])]]
         /\ tasks' = IF g.blockIsEmpty THEN others
                     ELSE others (+) SetToBag({[t EXCEPT !.pc = "page",
                                                         !.key = g.lastEvaluatedKey]})
         /\ UNCHANGED <<heap, cache, promises>>
    ELSE IF g.batch = <<>>
    THEN /\ searches' = [searches EXCEPT ![s] = g]
         /\ tasks' = others (+) SetToBag({[t EXCEPT !.pc = "pulled", !.entity = NoRef]})
         /\ UNCHANGED <<heap, cache, promises>>
    ELSE IF g.input.projected
    THEN \* return this.get(key of the shifted item): the cached get
         LET k == Head(g.batch)[hashKey] IN
         /\ searches' = [searches EXCEPT ![s] = [g EXCEPT !.batch = Tail(g.batch)]]
         /\ IF CacheHas(k)
            THEN /\ tasks' = others (+) SetToBag({[t EXCEPT !.pc = "refetch", !.key = k,
                                                            !.promise = cache[k]]})
                 /\ UNCHANGED <<cache, promises>>
            ELSE /\ Len(promises) < MaxPromises
                 /\ promises' = Append(promises, NewPromise("pending", NoRef, k, "read"))
                 /\ cache' = CacheSet(cache, k, Len(promises) + 1)
                 /\ tasks' = others (+) SetToBag({[t EXCEPT !.pc = "refetch", !.key = k,
                                                            !.promise = Len(promises) + 1]})
         /\ UNCHANGED heap
    ELSE /\ Len(heap) < MaxEntities
         /\ heap' = Append(heap, unMarshal(Head(g.batch)))
         /\ searches' = [searches EXCEPT ![s] = [g EXCEPT !.batch = Tail(g.batch)]]
         /\ tasks' = others (+) SetToBag({[t EXCEPT !.pc = "pulled", !.entity = Len(heap) + 1]})
         /\ UNCHANGED <<cache, promises>>

\* The synchronous part of a pull of sequence s
PullCall(s) ==
    /\ searches[s].pulls < MaxPulls
    /\ PullLoop(s, [searches[s] EXCEPT !.pulls = @ + 1],
                [Task("pull", Undef, NoRef, NoPromise, "start") EXCEPT !.i = s], tasks)
    /\ UNCHANGED <<store, known, epoch, tracked, calls, ops, flushes, events, cancelled>>

\* the source counts as exhausted as soon as a page has no items
SourceIsEmptyWhenNoItems(page) == page.Items = <<>>
\* sourceIsEmpty = dynamoResponse.LastEvaluatedKey === undefined
SourceIsEmpty(page) == page.LastEvaluatedKey = Undef

\* dc.scan / dc.query answers with a page: the block generator keeps the
\* cursor, the search generator the items, and the loop goes on
RespondPage(t) ==
    /\ JobsDrained
    /\ t.type = "pull" /\ t.pc = "page"
    /\ \E page \in Pages(t.key, searches[t.i].input.matching) :
          PullLoop(t.i,
                   [searches[t.i] EXCEPT
                       !.answers = Append(@, page.LastEvaluatedKey),
                       !.lastEvaluatedKey = page.LastEvaluatedKey,
                       !.blockIsEmpty = @ \/ page.LastEvaluatedKey = Undef,
                       !.batch = page.Items,
                       !.sourceIsEmpty = SourceIsEmpty(page)],
                   t, tasks (-) SetToBag({t}))
    /\ UNCHANGED <<store, known, epoch, tracked, calls, ops, flushes, events, cancelled>>

\* dc.scan / dc.query fails: the pull rejects
RespondPageFail(t) ==
    /\ JobsDrained
    /\ t.type = "pull" /\ t.pc = "page"
    /\ tasks' = tasks (-) SetToBag({t})
    /\ UNCHANGED <<store, heap, known, cache, promises, epoch, tracked, calls, ops, flushes,
                   events, cancelled, searches>>

\* The point read of a projected item is answered: ManagedDynamoRepository.get
\* tracks the entity and the base generator resolves to it, or to undefined
\* when the table holds no item under the key
PullRefetched(t) ==
    /\ t.type = "pull" /\ t.pc = "refetch"
    /\ Settled(t.promise)
    /\ tasks' = (tasks (-) SetToBag({t})) (+)
                (IF Rejected(t.promise) THEN EmptyBag
                 ELSE SetToBag({[t EXCEPT !.entity = Awaited(t.promise), !.promise = NoPromise,
                                          !.pc = "pulled"]}))
    /\ tracked' = IF Rejected(t.promise) THEN tracked
                  ELSE track(tracked, heap, Awaited(t.promise))
    /\ UNCHANGED <<store, heap, known, cache, promises, epoch, calls, ops, flushes, events,
                   cancelled, searches>>

\* CachedDynamoRepository.search after await getNextEntity(): undefined is
\* passed on, an entity is offered to the cache under its key
PullOffer(t) ==
    /\ t.type = "pull" /\ t.pc = "pulled"
    /\ LET key == getEntityKey(marshal(heap[t.entity]))[hashKey] IN
       tasks' = (tasks (-) SetToBag({t})) (+)
                (IF t.entity = NoRef
                 THEN SetToBag({[t EXCEPT !.result = <<NoRef>>, !.pc = "track"]})
                 ELSE SetToBag({[t EXCEPT !.key = key, !.promise = getFromCache(key),
                                          !.pc = "add"]}))
    /\ UNCHANGED <<store, heap, known, cache, promises, epoch, tracked, calls, ops, flushes,
                   events, cancelled, searches>>

\* await this.addToCacheByKey(key, entity): addToCacheByKey after its await
PullAddResume(t) ==
    /\ t.type = "pull" /\ t.pc = "add"
    /\ addToCacheByKey(t, [t EXCEPT !.promise = NoPromise, !.pc = "added"])

\* return this.getFromCache(key): the pull resolves as the entry does
PullAdded(t) ==
    /\ t.type = "pull" /\ t.pc = "added"
    /\ tasks' = (tasks (-) SetToBag({t})) (+)
                SetToBag({[t EXCEPT !.promise = getFromCache(t.key), !.pc = "return"]})
    /\ UNCHANGED <<store, heap, known, cache, promises, epoch, tracked, calls, ops, flushes,
                   events, cancelled, searches>>

\* the pull hands out the entity it unmarshaled
PullResultOwnCopy(t) == t.entity
\* what the cached generator resolves to: the value of the cache entry
PullResult(t) == Awaited(t.promise)

PullReturn(t) ==
    /\ t.type = "pull" /\ t.pc = "return"
    /\ t.promise # NoPromise => Settled(t.promise)
    /\ tasks' = (tasks (-) SetToBag({t})) (+)
                (IF Rejected(t.promise) THEN EmptyBag
                 ELSE SetToBag({[t EXCEPT !.result = <<PullResult(t)>>, !.promise = NoPromise,
                                          !.pc = "track"]}))
    /\ UNCHANGED <<store, heap, known, cache, promises, epoch, tracked, calls, ops, flushes,
                   events, cancelled, searches>>

\* ManagedDynamoRepository.search's generator after its await: track the
\* entity, return it
PullTrackResume(t) ==
    /\ t.type = "pull" /\ t.pc = "track"
    /\ tasks' = tasks (-) SetToBag({t})
    /\ tracked' = track(tracked, heap, t.result[1])
    /\ known' = known \cup ({t.result[1]} \ {NoRef})
    /\ cancelled' = cancelled \ {t.result[1]}
    /\ searches' = [searches EXCEPT ![t.i].delivered =
                       Append(@, [key |-> IF t.result[1] = NoRef THEN Undef
                                          ELSE heap[t.result[1]].id,
                                  requests |-> Len(searches[t.i].requests)])]
    /\ UNCHANGED <<store, heap, cache, promises, epoch, calls, ops, flushes, events>>


Application ==
    \/ \E k \in Keys : NewEntity(k)
    \/ \E e \in known : \E v \in Vals \cup {Undef} : MutateUpdated(e, v)
    \/ \E e \in known : \E v \in NestedVals : MutateNested(e, v)

Reads ==
    \/ \E k \in Keys : GetCall(k)
    \/ \E p \in DOMAIN promises : RespondGet(p)
    \/ \E t \in DOMAIN tasks : GetResume(t)

Seeding ==
    \/ \E e \in known : TrackNewCall(e)
    \/ \E t \in DOMAIN tasks : AddToCacheResume(t)
    \/ \E t \in DOMAIN tasks : TrackNewResume(t)

UnitOfWork ==
    \/ \E e \in known : delete(e)
    \/ clearTrackedEntities
    \/ flush
    \/ \E i \in DOMAIN ops : RespondWrite(i)
    \/ \E i \in DOMAIN ops : RespondWriteFail(i)

ReadFailures == \E p \in DOMAIN promises : RespondGetFail(p)

Lists ==
    \/ \E keys \in KeyLists : GetListCall(keys)
    \/ \E t \in DOMAIN tasks : RespondBatch(t)
    \/ \E t \in DOMAIN tasks : RespondBatchFail(t)
    \/ \E t \in DOMAIN tasks : ListAddResume(t)
    \/ \E t \in DOMAIN tasks : ListAdded(t)
    \/ \E t \in DOMAIN tasks : ListReadResume(t)
    \/ \E t \in DOMAIN tasks : ListCollectResume(t)
    \/ \E t \in DOMAIN tasks : ListTrackResume(t)

Searches ==
    \/ \E input \in SearchInputs : SearchCall(input)
    \/ \E s \in DOMAIN searches : PullCall(s)
    \/ \E t \in DOMAIN tasks : RespondPage(t)
    \/ \E t \in DOMAIN tasks : RespondPageFail(t)
    \/ \E t \in DOMAIN tasks : PullRefetched(t)
    \/ \E t \in DOMAIN tasks : PullOffer(t)
    \/ \E t \in DOMAIN tasks : PullAddResume(t)
    \/ \E t \in DOMAIN tasks : PullAdded(t)
    \/ \E t \in DOMAIN tasks : PullReturn(t)
    \/ \E t \in DOMAIN tasks : PullTrackResume(t)

\* every operation of the repository
Next == Application \/ Reads \/ Lists \/ Searches \/ Seeding \/ UnitOfWork \/ ReadFailures \/ clear

Spec == Init /\ [][Next]_vars

\* no get, trackNew or flush call of the caller is still awaited
\* and the run ends with its last flush
FlushSettled == \A f \in DOMAIN flushes : flushes[f].status # "pending"
Idle == tasks = EmptyBag /\ FlushSettled /\ Len(flushes) < MaxFlushes

\* The unit of work under a caller that awaits every call before its next
\* step, over a cache that is not cleared and reads that succeed.  The store's
\* answers to the requests of one flush still arrive in any order, and those
\* of a rejected flush may arrive after the caller has moved on.
NextUnitOfWork ==
    \/ (Idle /\ \E k \in FreshKeys : NewEntity(k))
    \/ (Idle /\ \E e \in known : \E v \in Vals \cup {Undef} : MutateUpdated(e, v))
    \/ (Idle /\ \E e \in known : \E v \in NestedVals : MutateNested(e, v))
    \/ (Idle /\ \E k \in Keys : GetCall(k))
    \/ (\E p \in DOMAIN promises : RespondGet(p))
    \/ (\E t \in DOMAIN tasks : GetResume(t))
    \/ (Idle /\ \E e \in known : TrackNewCall(e))
    \/ (\E t \in DOMAIN tasks : AddToCacheResume(t))
    \/ (\E t \in DOMAIN tasks : TrackNewResume(t))
    \/ (Idle /\ \E e \in known : delete(e))
    \/ (Idle /\ flush)
    \/ (\E i \in DOMAIN ops : RespondWrite(i))
    \/ (\E i \in DOMAIN ops : RespondWriteFail(i))

UnitOfWorkSpec == Init /\ [][NextUnitOfWork]_vars

\* the same caller, who may also reset the tracked table
NextReset == NextUnitOfWork \/ (Idle /\ clearTrackedEntities)

ResetSpec == Init /\ [][NextReset]_vars

\* the read cache alone: nothing is flushed
NextCache ==
    \/ \E k \in Keys : NewEntity(k)
    \/ Reads \/ Seeding \/ ReadFailures \/ clear

CacheSpec == Init /\ [][NextCache]_vars

\* get calls alone, answered or failed by the store, across cache clears,
\* while another client may add items to the table
NextRead == Reads \/ ReadFailures \/ clear \/ (\E k \in Keys : ExternalPut(k))

ReadSpec == Init /\ [][NextRead]_vars

\* get and getList calls in any interleaving, answered or failed by the
\* store, over a cache that is not cleared, while another client may add
\* items
NextList == Reads \/ Lists \/ ReadFailures \/ (\E k \in Keys : ExternalPut(k))

ListSpec == Init /\ [][NextList]_vars

\* get, getList and search pulls in any interleaving, answered or failed by
\* the store, over a cache that is not cleared, while another client may add
\* items
NextReadRaces ==
    \/ Reads \/ Lists \/ ReadFailures \/ (\E k \in Keys : ExternalPut(k))
    \/ SearchCall(PlainInput)
    \/ \E s \in DOMAIN searches : PullCall(s)
    \/ \E t \in DOMAIN tasks : RespondPage(t)
    \/ \E t \in DOMAIN tasks : RespondPageFail(t)
    \/ \E t \in DOMAIN tasks : PullOffer(t)
    \/ \E t \in DOMAIN tasks : PullAddResume(t)
    \/ \E t \in DOMAIN tasks : PullAdded(t)
    \/ \E t \in DOMAIN tasks : PullReturn(t)
    \/ \E t \in DOMAIN tasks : PullTrackResume(t)

ReadRacesSpec == Init /\ [][NextReadRaces]_vars

\* the three read paths under a caller that awaits every call before its
\* next one, over a cache that is not cleared and a store that answers,
\* while another client may add items
Quiet == tasks = EmptyBag
NextReadPaths ==
    \/ (Quiet /\ \E k \in Keys : GetCall(k))
    \/ (\E p \in DOMAIN promises : RespondGet(p))
    \/ (\E t \in DOMAIN tasks : GetResume(t))
    \/ (Quiet /\ \E keys \in KeyLists : GetListCall(keys))
    \/ (\E t \in DOMAIN tasks : RespondBatch(t))
    \/ (\E t \in DOMAIN tasks : ListAddResume(t))
    \/ (\E t \in DOMAIN tasks : ListAdded(t))
    \/ (\E t \in DOMAIN tasks : ListReadResume(t))
    \/ (\E t \in DOMAIN tasks : ListCollectResume(t))
    \/ (\E t \in DOMAIN tasks : ListTrackResume(t))
    \/ (Quiet /\ SearchCall(PlainInput))
    \/ (Quiet /\ \E s \in DOMAIN searches : PullCall(s))
    \/ (\E t \in DOMAIN tasks : RespondPage(t))
    \/ (\E t \in DOMAIN tasks : PullOffer(t))
    \/ (\E t \in DOMAIN tasks : PullAddResume(t))
    \/ (\E t \in DOMAIN tasks : PullAdded(t))
    \/ (\E t \in DOMAIN tasks : PullReturn(t))
    \/ (\E t \in DOMAIN tasks : PullTrackResume(t))
    \/ (\E k \in Keys : ExternalPut(k))

ReadPathsSpec == Init /\ [][NextReadPaths]_vars

\* one search sequence of any input, pulled by a caller that awaits each
\* pull, over a table that does not change once the search has started
NextPaging ==
    \/ (searches = <<>> /\ \E k \in Keys : ExternalPut(k))
    \/ (\E input \in SearchInputs : SearchCall(input))
    \/ (Quiet /\ \E s \in DOMAIN searches : PullCall(s))
    \/ (\E t \in DOMAIN tasks : RespondPage(t))
    \/ (\E p \in DOMAIN promises : RespondGet(p))
    \/ (\E t \in DOMAIN tasks : PullRefetched(t))
    \/ (\E t \in DOMAIN tasks : PullOffer(t))
    \/ (\E t \in DOMAIN tasks : PullAddResume(t))
    \/ (\E t \in DOMAIN tasks : PullAdded(t))
    \/ (\E t \in DOMAIN tasks : PullReturn(t))
    \/ (\E t \in DOMAIN tasks : PullTrackResume(t))

PagingSpec == Init /\ [][NextPaging]_vars

\* the same, after get calls the caller awaited
NextSearchAfterGet ==
    \/ NextPaging
    \/ (Quiet /\ searches = <<>> /\ \E k \in Keys : GetCall(k))
    \/ (\E t \in DOMAIN tasks : GetResume(t))

SearchAfterGetSpec == Init /\ [][NextSearchAfterGet]_vars

\* getList over key objects of any shape, by a caller that awaits each call
NextKeys ==
    \/ (Quiet /\ \E keys \in AnyKeyLists : GetListCall(keys))
    \/ (\E t \in DOMAIN tasks : RespondBatch(t))
    \/ (\E t \in DOMAIN tasks : ListAddResume(t))
    \/ (\E t \in DOMAIN tasks : ListAdded(t))
    \/ (\E t \in DOMAIN tasks : ListReadResume(t))
    \/ (\E t \in DOMAIN tasks : ListCollectResume(t))
    \/ (\E t \in DOMAIN tasks : ListTrackResume(t))
    \/ (\E k \in Keys : ExternalPut(k))

KeysSpec == Init /\ [][NextKeys]_vars

\* a scan of the whole table, over the table itself or over an index that
\* does not project every attribute
WholeTableInputs == {SearchInput(Undef, Keys, projected, FALSE) : projected \in BOOLEAN}

\* the tracked table under a caller that awaits every call before its next
\* step: entities are made, changed, read on the three read paths, seeded
\* and deleted; nothing is flushed
NextTracking ==
    \/ (Quiet /\ \E k \in Keys : NewEntity(k))
    \/ (Quiet /\ \E e \in known : \E v \in Vals \cup {Undef} : MutateUpdated(e, v))
    \/ (Quiet /\ \E k \in Keys : GetCall(k))
    \/ (\E p \in DOMAIN promises : RespondGet(p))
    \/ (\E t \in DOMAIN tasks : GetResume(t))
    \/ (Quiet /\ \E keys \in KeyLists : GetListCall(keys))
    \/ (\E t \in DOMAIN tasks : RespondBatch(t))
    \/ (\E t \in DOMAIN tasks : ListAddResume(t))
    \/ (\E t \in DOMAIN tasks : ListAdded(t))
    \/ (\E t \in DOMAIN tasks : ListReadResume(t))
    \/ (\E t \in DOMAIN tasks : ListCollectResume(t))
    \/ (\E t \in DOMAIN tasks : ListTrackResume(t))
    \/ (Quiet /\ \E input \in WholeTableInputs : SearchCall(input))
    \/ (Quiet /\ \E s \in DOMAIN searches : PullCall(s))
    \/ (\E t \in DOMAIN tasks : RespondPage(t))
    \/ (\E t \in DOMAIN tasks : PullRefetched(t))
    \/ (\E t \in DOMAIN tasks : PullOffer(t))
    \/ (\E t \in DOMAIN tasks : PullAddResume(t))
    \/ (\E t \in DOMAIN tasks : PullAdded(t))
    \/ (\E t \in DOMAIN tasks : PullReturn(t))
    \/ (\E t \in DOMAIN tasks : PullTrackResume(t))
    \/ (Quiet /\ \E e \in known : TrackNewCall(e))
    \/ (\E t \in DOMAIN tasks : AddToCacheResume(t))
    \/ (\E t \in DOMAIN tasks : TrackNewResume(t))
    \/ (Quiet /\ \E e \in known : delete(e))

TrackingSpec == Init /\ [][NextTracking]_vars

\* the three read paths under a caller that awaits every call, who may clear
\* the cache between calls
NextCacheLife == NextReadPaths \/ (Quiet /\ clear)

CacheLifeSpec == Init /\ [][NextCacheLife]_vars

\* the unit of work under a caller that does not wait for its flushes: while
\* the requests of a flush are unanswered it changes, seeds, reads and
\* deletes entities and may flush again
NextFlushRaces ==
    \/ (Quiet /\ \E k \in FreshKeys : NewEntity(k))
    \/ (Quiet /\ \E e \in known : \E v \in Vals \cup {Undef} : MutateUpdated(e, v))
    \/ (Quiet /\ \E k \in Keys : GetCall(k))
    \/ (\E p \in DOMAIN promises : RespondGet(p))
    \/ (\E t \in DOMAIN tasks : GetResume(t))
    \/ (Quiet /\ \E e \in known : TrackNewCall(e))
    \/ (\E t \in DOMAIN tasks : AddToCacheResume(t))
    \/ (\E t \in DOMAIN tasks : TrackNewResume(t))
    \/ (Quiet /\ \E e \in known : delete(e))
    \/ (Quiet /\ flush)
    \/ (\E i \in DOMAIN ops : RespondWrite(i))
    \/ (\E i \in DOMAIN ops : RespondWriteFail(i))

FlushRacesSpec == Init /\ [][NextFlushRaces]_vars

\* one search sequence whose pulls the caller starts without waiting for
\* the earlier ones, over a table that does not change once the search has
\* started and a store that answers
NextPullRaces ==
    \/ (searches = <<>> /\ \E k \in Keys : ExternalPut(k))
    \/ (\E input \in SearchInputs : SearchCall(input))
    \/ (\E s \in DOMAIN searches : PullCall(s))
    \/ (\E t \in DOMAIN tasks : RespondPage(t))
    \/ (\E p \in DOMAIN promises : RespondGet(p))
    \/ (\E t \in DOMAIN tasks : PullRefetched(t))
    \/ (\E t \in DOMAIN tasks : PullOffer(t))
    \/ (\E t \in DOMAIN tasks : PullAddResume(t))
    \/ (\E t \in DOMAIN tasks : PullAdded(t))
    \/ (\E t \in DOMAIN tasks : PullReturn(t))
    \/ (\E t \in DOMAIN tasks : PullTrackResume(t))

PullRacesSpec == Init /\ [][NextPullRaces]_vars

\* trackNew(e) has been called and delete(e) has not
Cancellable(e) ==
    /\ e \notin cancelled
    /\ \/ e \in DOMAIN tracked /\ tracked[e].action = "CREATE"
       \/ /\ e \notin DOMAIN tracked
          /\ \E t \in DOMAIN tasks : t.type = "trackNew" /\ t.entity = e

\* new entities are handed to trackNew and then to delete, which the caller
\* may call while trackNew is still suspended; flushes are called when no
\* call is suspended
NextCancelRaces ==
    \/ (Quiet /\ \E k \in FreshKeys : NewEntity(k))
    \/ (\E e \in known : TrackNewCall(e))
    \/ (\E t \in DOMAIN tasks : AddToCacheResume(t))
    \/ (\E t \in DOMAIN tasks : TrackNewResume(t))
    \/ (\E e \in known : Cancellable(e) /\ delete(e))
    \/ (Quiet /\ flush)
    \/ (\E i \in DOMAIN ops : RespondWrite(i))

CancelRacesSpec == Init /\ [][NextCancelRaces]_vars

----------------------------------------------------------------------------
(* Properties *)

\* the requests a flush sent for an entity
OpsFor(f, e) == {i \in OpsOf(f) : ops[i].entity = e}
\* how flush f found entity e
SeenAs(f, e, what) == e \in DOMAIN flushes[f].seen /\ flushes[f].seen[e] = what
\* the key a request writes to
KeyOf(i) == ops[i].payload[hashKey]
\* no write to the same key was applied after request i
LatestWrite(i) ==
    ~\E j \in DOMAIN ops :
        ops[j].status = "ok" /\ KeyOf(j) = KeyOf(i) /\ ops[j].applied > ops[i].applied
\* item carries every attribute of the entity state h, and nothing else
FullItemOf(item, h) ==
    /\ DOMAIN item = {"id", "nested"} \cup (IF h.updated = Undef THEN {} ELSE {"updated"})
    /\ item.id = h.id
    /\ Attr(item, "updated") = h.updated
    /\ DOMAIN item.nested = (IF h.nested.nestedUpdated = Undef THEN {} ELSE {"nestedUpdated"})
    /\ Attr(item.nested, "nestedUpdated") = h.nested.nestedUpdated
GetTasks == {t \in DOMAIN tasks : t.type = "get"}

\* C1: single-flight.  Between two clears at most one point read is sent for
\* a key, however many get calls ask for it, and all get calls for the key
\* wait on that one read's promise, hence resolve to the same reference.
C1_SingleFlight ==
    /\ \A p, q \in DOMAIN promises :
          (/\ promises[p].kind = "read" /\ promises[q].kind = "read"
           /\ promises[p].key = promises[q].key
           /\ promises[p].epoch = promises[q].epoch) => p = q
    /\ \A t \in GetTasks :
          promises[t.promise].kind = "read" /\ promises[t.promise].key = t.key
    /\ \A t, u \in GetTasks :
          (t.key = u.key /\ promises[t.promise].epoch = promises[u.promise].epoch)
              => t.promise = u.promise

\* two get calls for one key wait on one read, which found the item
C1_TwoCallsOneRead ==
    \E t \in GetTasks :
        /\ CopiesIn(t, tasks) >= 2
        /\ promises[t.promise].state = "resolved"
        /\ promises[t.promise].value # NoRef
        /\ Cardinality({p \in DOMAIN promises : promises[p].key = t.key}) = 1

\* C2: no-op on unchanged update.  A flush sends no request for an UPDATE
\* entity whose serialisation equals its snapshot, also when the entity was
\* changed (and put by an earlier flush) and then restored.
C2_NoOpOnUnchangedUpdate ==
    \A f \in DOMAIN flushes : \A e \in DOMAIN flushes[f].seen :
        SeenAs(f, e, "unchanged") => OpsFor(f, e) = {}

\* an entity found changed by one flush and, restored, unchanged by the next
C2_MutatedThenRestored ==
    \E f \in DOMAIN flushes : \E g \in DOMAIN flushes : \E e \in DOMAIN heap :
        f < g /\ SeenAs(f, e, "changed") /\ OpsFor(f, e) # {} /\ SeenAs(g, e, "unchanged")

\* C3: dirty flush.  For an UPDATE entity whose serialisation differs from its
\* snapshot a flush sends exactly one request, a put of the whole current
\* state; once applied, the store holds that state under the key (until a
\* later write to the same key is applied).
C3_DirtyFlushPutsCurrentState ==
    /\ \A f \in DOMAIN flushes : \A e \in DOMAIN flushes[f].seen :
          SeenAs(f, e, "changed") =>
              \E i \in OpsFor(f, e) :
                  /\ OpsFor(f, e) = {i}
                  /\ ops[i].kind = "put"
                  /\ FullItemOf(ops[i].payload, flushes[f].entities[e])
    /\ \A i \in DOMAIN ops :
          (ops[i].action = "UPDATE" /\ ops[i].status = "ok" /\ LatestWrite(i)) =>
              (KeyOf(i) \in DOMAIN store /\ store[KeyOf(i)] = ops[i].payload)

\* a resolved flush that put a changed entity; the store holds the new state
C3_ChangedEntityStored ==
    \E f \in DOMAIN flushes : \E e \in DOMAIN flushes[f].seen : \E i \in OpsFor(f, e) :
        /\ SeenAs(f, e, "changed") /\ flushes[f].status = "resolved"
        /\ store[KeyOf(i)] = marshal(heap[e])
        /\ store[KeyOf(i)] # InitialItem(KeyOf(i))
        /\ "updated" \notin DOMAIN store[KeyOf(i)]

\* C4: create always persists.  For an entity that trackNew has tracked, a
\* flush sends exactly one request, a put of marshal(entity), whether the
\* entity was mutated after trackNew or not.
C4_CreateAlwaysPersists ==
    \A f \in DOMAIN flushes : \A e \in DOMAIN flushes[f].seen :
        SeenAs(f, e, "CREATE") =>
            \E i \in OpsFor(f, e) :
                /\ OpsFor(f, e) = {i}
                /\ ops[i].kind = "put"
                /\ FullItemOf(ops[i].payload, flushes[f].entities[e])

\* a flush that put a new entity nobody had touched since its construction
C4_UntouchedCreatePut ==
    \E f \in DOMAIN flushes : \E e \in DOMAIN flushes[f].seen :
        /\ SeenAs(f, e, "CREATE")
        /\ flushes[f].entities[e] = NewEntityObject(heap[e].id)
        /\ OpsFor(f, e) # {}

\* C5: delete before flush cancels a pending create.  After trackNew(e) and
\* delete(e) the entity is not tracked, and the flush sends no request for it.
C5_DeleteCancelsPendingCreate ==
    /\ cancelled \cap DOMAIN tracked = {}
    /\ \A f \in DOMAIN flushes : \A e \in DOMAIN flushes[f].seen :
          SeenAs(f, e, "cancelled") => OpsFor(f, e) = {}

\* trackNew(e), delete(e), flush with no flush in between: nothing was ever
\* sent for e
C5_CancelledThenFlushed ==
    \E f \in DOMAIN flushes : \E e \in DOMAIN flushes[f].seen :
        /\ SeenAs(f, e, "cancelled")
        /\ e \notin DOMAIN tracked
        /\ \A i \in DOMAIN ops : ops[i].entity # e

\* C6: an entity deleted while CREATE-tracked is never persisted.  After the
\* delete and a following successful flush the store holds no item under
\* the entity's key (no other entity ever wrote to that key).
C6_CancelledCreateNotInStore ==
    \A f \in DOMAIN flushes : \A e \in DOMAIN flushes[f].seen :
        (/\ SeenAs(f, e, "cancelled")
         /\ flushes[f].status = "resolved"
         /\ heap[e].id \in FreshKeys
         /\ \A i \in DOMAIN ops : KeyOf(i) = heap[e].id => ops[i].entity = e)
            => heap[e].id \notin DOMAIN store

\* C7: delete(e) on an entity that is not CREATE-tracked marks it DELETE; a
\* flush sends for it exactly one request, a delete whose key holds only the
\* schema's key attribute of marshal(e); once applied, the store holds no
\* item under that key (until a later put of the same key is applied).
C7_DeleteSendsOneKeyedDelete ==
    /\ \A e \in known :
          (e \notin DOMAIN tracked \/ tracked[e].action # "CREATE")
              => deleteTracked(tracked, e)[e].action = "DELETE"
    /\ \A f \in DOMAIN flushes : \A e \in DOMAIN flushes[f].seen :
          SeenAs(f, e, "DELETE") =>
              \E i \in OpsFor(f, e) :
                  /\ OpsFor(f, e) = {i}
                  /\ ops[i].kind = "delete"
                  /\ DOMAIN ops[i].payload = {hashKey}
                  /\ ops[i].payload[hashKey] = marshal(heap[e])[hashKey]
    /\ \A i \in DOMAIN ops :
          (ops[i].kind = "delete" /\ ops[i].status = "ok" /\ LatestWrite(i)) =>
              KeyOf(i) \notin DOMAIN store

\* a read entity was deleted and a flush removed its item from the store
C7_StoredItemDeleted ==
    \E f \in DOMAIN flushes : \E e \in DOMAIN flushes[f].seen : \E i \in OpsFor(f, e) :
        /\ SeenAs(f, e, "DELETE") /\ flushes[f].status = "resolved"
        /\ ops[i].status = "ok"
        /\ KeyOf(i) \in StoredKeys
        /\ KeyOf(i) \notin DOMAIN store

\* C8: no fail-fast.  A flush has rejected (and emitted "error.flushing")
\* only when every request it sent has been answered.
C8_RejectsAfterAllSettled ==
    \A f \in DOMAIN flushes :
        flushes[f].status = "rejected" =>
            \A i \in OpsOf(f) : ops[i].status # "pending"

\* the notification the catch block of a failed request emits
ReportOf(i) ==
    Event(CASE ops[i].action = "CREATE" -> "error.creating"
            [] ops[i].action = "UPDATE" -> "error.updating"
            [] ops[i].action = "DELETE" -> "error.deleting",
          ops[i].error, ops[i].entity, NoPromise, ops[i].flush)
Reports(i) == {n \in DOMAIN events : events[n] = ReportOf(i)}

\* C9: every failed put of a flush is reported, exactly once, with the
\* store's error and the entity ("error.creating" for a CREATE entity,
\* "error.updating" for an UPDATE entity), before the flush rejects.
C9_FailedPutReportedBeforeReject ==
    \A i \in DOMAIN ops :
        (ops[i].kind = "put" /\ ops[i].status = "failed") =>
            /\ Cardinality(Reports(i)) = 1
            /\ \A n \in Reports(i) : \A m \in DOMAIN events :
                  (events[m].type = "error.flushing" /\ events[m].flush = ops[i].flush)
                      => n < m

\* C10: every failed delete of a flush is reported, exactly once, as
\* "error.deleting" with the store's error and the entity.
C10_FailedDeleteReported ==
    \A i \in DOMAIN ops :
        (ops[i].kind = "delete" /\ ops[i].status = "failed") =>
            Cardinality(Reports(i)) = 1

\* the outcome notifications of flush f
Outcomes(f, type) == {n \in DOMAIN events : events[n].type = type /\ events[n].flush = f}
FailedOf(f) == {i \in OpsOf(f) : ops[i].status = "failed"}

\* C11: every flush ends with exactly one outcome notification.  "flushed"
\* is emitted if and only if every request of the flush succeeded, and only
\* once all of them were answered; otherwise "error.flushing" is emitted and
\* the flush rejects with the store's error of the first failure.  A flush
\* over an empty tracked table sends nothing and emits "flushed".
C11_OneOutcomePerFlush ==
    \A f \in DOMAIN flushes :
        /\ flushes[f].status = "pending" =>
              Outcomes(f, "flushed") = {} /\ Outcomes(f, "error.flushing") = {}
        /\ flushes[f].status = "resolved" =>
              /\ Cardinality(Outcomes(f, "flushed")) = 1
              /\ Outcomes(f, "error.flushing") = {}
              /\ \A i \in OpsOf(f) : ops[i].status = "ok"
        /\ flushes[f].status = "rejected" =>
              /\ Cardinality(Outcomes(f, "error.flushing")) = 1
              /\ Outcomes(f, "flushed") = {}
              /\ \E i \in FailedOf(f) : flushes[f].error = ops[i].error
              /\ Cardinality(FailedOf(f)) = 1 =>
                    \A i \in FailedOf(f) : flushes[f].error = ops[i].error
        /\ (\A i \in OpsOf(f) : ops[i].status = "ok") => flushes[f].status = "resolved"
        /\ (\A e \in DOMAIN flushes[f].seen : flushes[f].seen[e] = "cancelled") =>
              OpsOf(f) = {} /\ flushes[f].status = "resolved"

\* a flush over an empty table that emitted "flushed", and a flush of two
\* requests that rejected with the error of the one that failed
C11_BothOutcomes ==
    \E f \in DOMAIN flushes : \E g \in DOMAIN flushes :
        /\ DOMAIN flushes[f].seen = {} /\ flushes[f].status = "resolved"
        /\ flushes[g].status = "rejected"
        /\ \E i \in OpsOf(g) : \E j \in OpsOf(g) :
              /\ ops[i].status = "failed" /\ ops[j].status = "ok"
              /\ flushes[g].error = ops[i].error

\* a step of flush: the call itself or the answer to one of its requests
FlushStep == flushes' # flushes \/ ops' # ops

\* C12: flush leaves the tracked table as it is, whether it succeeds or
\* fails: no step of a flush changes the set of tracked entities, an action
\* or a snapshot; the table is emptied as a whole by clearTrackedEntities only.
C12_FlushKeepsTracked ==
    [][/\ FlushStep => tracked' = tracked
       /\ (Cardinality(DOMAIN tracked) > 1 /\ tracked' = NoTracked)
             => (ops' = ops /\ flushes' = flushes /\ tasks' = tasks /\ heap' = heap
                 /\ cancelled' = cancelled)]_vars

\* after a flush that put a changed entity and one that failed, the table
\* still holds the entity with its first snapshot
C12_TrackedAfterFlushes ==
    \E f \in DOMAIN flushes : \E g \in DOMAIN flushes : \E e \in DOMAIN tracked :
        /\ flushes[f].status = "resolved" /\ flushes[g].status = "rejected"
        /\ OpsFor(f, e) # {} /\ OpsFor(g, e) # {}
        /\ tracked[e].action = "UPDATE"
        /\ tracked[e].initialStatus = JsonStringify(unMarshal(InitialItem(heap[e].id)))

\* C13: re-flushing is harmless for UPDATE entities.  After a flush that
\* successfully put a changed UPDATE entity, a later flush that finds the
\* entity in the state that was put sends no put for it.
C13_NoPutOnReflush ==
    \A f \in DOMAIN flushes : \A g \in DOMAIN flushes : \A e \in DOMAIN flushes[f].seen :
        (/\ f < g
         /\ SeenAs(f, e, "changed") /\ flushes[f].status = "resolved"
         /\ e \in DOMAIN flushes[g].entities
         /\ flushes[g].entities[e] = flushes[f].entities[e]
         /\ flushes[g].seen[e] \in {"changed", "unchanged"})
            => OpsFor(g, e) = {}

\* the cache entry of key k has resolved to an entity
ResolvedEntry(k) ==
    /\ k \in DOMAIN cache
    /\ promises[cache[k]].state = "resolved"
    /\ promises[cache[k]].value # NoRef

\* C14: cache identity stability.  Once the cache entry of a key has
\* resolved to an entity, and until the cache is cleared, the entry is never
\* replaced (every later get returns that entity) and no point read is sent
\* for the key.
C14_ResolvedEntryIsStable ==
    [][\A k \in Keys :
          (ResolvedEntry(k) /\ epoch' = epoch) =>
              /\ k \in DOMAIN cache'
              /\ promises'[cache'[k]].state = "resolved"
              /\ promises'[cache'[k]].value = promises[cache[k]].value
              /\ \A p \in DOMAIN promises' \ DOMAIN promises :
                    ~(promises'[p].kind = "read" /\ promises'[p].key = k)]_vars

\* the point reads of the current cache epoch that found no item
Misses == {p \in DOMAIN promises : /\ promises[p].kind = "read" /\ promises[p].epoch = epoch
                                    /\ promises[p].state = "resolved"
                                    /\ promises[p].value = NoRef}

\* C15: negative caching.  After get(k) resolved to "not found", and until
\* the cache is cleared, the miss stays the cache entry of k: a later get(k)
\* waits on it (so resolves to "not found" again) and no other point read is
\* sent for k, whatever the store holds by now.
C15_MissStaysCached ==
    \A p \in Misses :
        /\ promises[p].key \in DOMAIN cache /\ cache[promises[p].key] = p
        /\ \A q \in DOMAIN promises :
              (promises[q].key = promises[p].key /\ promises[q].epoch = epoch) => q = p
        /\ \A t \in GetTasks :
              (t.key = promises[p].key /\ promises[t.promise].epoch = epoch) => t.promise = p

\* a get called after another client created the item waits on the cached miss
C15_LaterGetStillMisses ==
    \E t \in GetTasks :
        /\ t.promise \in Misses
        /\ t.key \in DOMAIN store
        /\ t.key \notin StoredKeys

\* the step emits a "cacheKeyInUse" notification
EmitsKeyInUse ==
    /\ Len(events') = Len(events) + 1
    /\ events'[Len(events')].type = "cacheKeyInUse"

\* C16: collision policy.  Between two clears an existing cache entry, be it
\* a resolved entity, a cached miss or a pending fetch, is never replaced by
\* a value offered for its key: the entry stays and "cacheKeyInUse" is
\* emitted instead.
C16_EntryNeverReplaced ==
    [][\A k \in DOMAIN cache :
          (epoch' = epoch /\ ~EmitsKeyInUse) => (k \in DOMAIN cache' /\ cache'[k] = cache[k])]_vars

\* the promises addToCache installed for an entity offered by the application
Seeds == {p \in DOMAIN promises : promises[p].kind = "seed"}

\* C17: seeding.  Once addToCache(e) / trackNew(e) has installed e, the entry
\* of key(e) is the one resolved to the reference e, every get of that key
\* awaits that entry, and no read of the key is sent to the store afterwards.
C17_SeededEntityIsServed ==
    \A p \in Seeds :
        /\ promises[p].state = "resolved" /\ promises[p].value \in known
        /\ getEntityKey(marshal(heap[promises[p].value]))[hashKey] = promises[p].key
        /\ CacheHas(promises[p].key) /\ cache[promises[p].key] = p
        /\ \A q \in DOMAIN promises : (q > p /\ promises[q].key = promises[p].key) => q \in Seeds
        /\ \A t \in GetTasks : t.key = promises[p].key => t.promise = p

\* a get of a key the store holds no item for, and that had no cache entry
\* before trackNew, awaits the seeded entity
C17_GetAfterTrackNew ==
    \E t \in GetTasks :
        /\ t.promise \in Seeds
        /\ t.key \notin DOMAIN store
        /\ \A q \in DOMAIN promises : q # t.promise => promises[q].key # t.key
        /\ promises[t.promise].value \in DOMAIN tracked
        /\ tracked[promises[t.promise].value].action = "CREATE"

\* the point reads for key k the store has not answered
PointReads(k) ==
    {p \in DOMAIN promises :
        promises[p].kind = "read" /\ promises[p].state = "pending" /\ promises[p].key = k}
\* the getList calls whose batch read asks for key k and is not answered
BatchReads(k) ==
    [t \in {u \in DOMAIN tasks : u.pc = "batch" /\ \E j \in DOMAIN u.request : u.request[j][hashKey] = k}
        |-> tasks[t]]

\* C19: at most one fetch of a key in flight.  The point reads and batch
\* reads the store has yet to answer include any key at most once.
C19_OneFetchInFlight ==
    \A k \in Keys : Cardinality(PointReads(k)) + BagCardinality(BatchReads(k)) <= 1

ListTasks == {t \in DOMAIN tasks : t.type = "getList"}

\* C20: dedup in batch reads.  The batch read of a getList call asks for
\* every key that had no cache entry, each once, whatever key objects the
\* list held it in; and in the result the call returns, key objects of equal
\* value map to the same value.
C20_BatchAsksEachKeyOnce ==
    \A t \in ListTasks :
        /\ \A i, j \in DOMAIN t.request : t.request[i] = t.request[j] => i = j
        /\ {t.request[j] : j \in DOMAIN t.request} = {t.keys[t.notCached[m]] : m \in DOMAIN t.notCached}
        /\ t.pc = "track" =>
              \A i, j \in DOMAIN t.keys : t.keys[i] = t.keys[j] => t.result[i] = t.result[j]

\* a list holding one stored key in two key objects was fetched with a batch
\* read of one key and both objects map to the entity
C20_DuplicateKeysOneEntity ==
    \E t \in ListTasks :
        /\ t.pc = "track" /\ Len(t.keys) = 2 /\ t.keys[1] = t.keys[2]
        /\ Len(t.notCached) = 2 /\ Len(t.request) = 1
        /\ t.result[1] # NoRef /\ t.result[2] = t.result[1]

PullTasks == {t \in DOMAIN tasks : t.type = "pull"}
\* what the calls about to return hand out
Returning ==
    UNION {{t.result[j] : j \in DOMAIN t.result} : t \in {u \in ListTasks \cup PullTasks : u.pc = "track"}}
      \cup {promises[t.promise].value : t \in {u \in GetTasks : promises[u.promise].state = "resolved"}}
\* the cache entry of key k has resolved to v
CachedAs(k, v) ==
    k \in DOMAIN cache /\ promises[cache[k]].state = "resolved" /\ promises[cache[k]].value = v

\* C18: the read paths converge on one instance.  Whatever get, getList and
\* search hand out for a key is one object: a getList result maps each key to
\* the value its cache entry resolved to, a search pull returns the value of
\* the cache entry of its item's key, and no two entities handed out carry
\* the same key.
C18_ReadPathsConverge ==
    /\ \A e1, e2 \in (known \cup Returning) \ {NoRef} : heap[e1].id = heap[e2].id => e1 = e2
    /\ \A t \in ListTasks :
          t.pc = "track" => \A j \in DOMAIN t.keys : CachedAs(t.keys[j][hashKey], t.result[j])
    /\ \A t \in PullTasks :
          (t.pc = "track" /\ t.entity # NoRef) => CachedAs(heap[t.entity].id, t.result[1])

\* a search pull whose item has the key of an entity that get returned
\* before hands out that entity, not the copy it unmarshaled
C18_PullReturnsCached ==
    \E t \in PullTasks :
        /\ t.pc = "track" /\ t.entity # NoRef
        /\ t.result[1] # t.entity /\ t.result[1] \in known
        /\ heap[t.result[1]].id = heap[t.entity].id

\* the getList calls this step started
StartedLists ==
    {t \in DOMAIN tasks' :
        /\ t.type = "getList" /\ calls' = calls + 1
        /\ CopiesIn(t, tasks') > CopiesIn(t, tasks)}

\* C21: getList fetches only the keys that are not cached.  The batch read a
\* getList call sends asks for no key that has a cache entry when the call is
\* made, the call sends none when every key has an entry, and no step but
\* the call itself sends a batch read.
C21_BatchOnlyNotCached ==
    [][/\ \A t \in StartedLists :
            /\ \A j \in DOMAIN t.request : t.request[j][hashKey] \notin DOMAIN cache
            /\ (\A j \in DOMAIN t.keys : t.keys[j][hashKey] \in DOMAIN cache)
                  => (t.pc # "batch" /\ t.request = <<>>)
            /\ t.pc = "batch" => t.request # <<>>
            /\ promises' = promises
       /\ \A t \in DOMAIN tasks' :
            (t.pc = "batch" /\ t \notin StartedLists)
               => (t \in DOMAIN tasks /\ CopiesIn(t, tasks') <= CopiesIn(t, tasks))]_vars

\* a getList call of two keys, one with a cache entry and one without, has
\* sent a batch read for the one without
C21_PartlyCachedList ==
    \E t \in ListTasks :
        /\ t.pc = "batch" /\ Len(t.keys) = 2 /\ Len(t.request) = 1
        /\ t.keys[1] # t.keys[2]
        /\ \E j \in DOMAIN t.keys : t.keys[j][hashKey] \in DOMAIN cache /\ j \notin {t.notCached[1]}

\* the batch read of getList call t found an item for the key at position j
Found(t, j) ==
    \E m \in DOMAIN t.response : t.keys[t.notCached[m]] = t.keys[j] /\ t.response[m] # NoRef

\* C22: missing keys in getList.  The map getList returns has an entry for
\* every key object of the input; a fetched key maps to an entity of that key
\* when the batch read found an item for it, and to undefined when it found
\* none, and then the cache holds the miss.
C22_EveryKeyHasAnEntry ==
    \A t \in ListTasks :
        t.pc = "track" =>
          /\ DOMAIN t.result = DOMAIN t.keys
          /\ \A m \in DOMAIN t.notCached :
                LET j == t.notCached[m]
                    k == t.keys[j][hashKey]
                IN  IF Found(t, j)
                    THEN t.result[j] # NoRef /\ heap[t.result[j]].id = k
                    ELSE t.result[j] = NoRef /\ CachedAs(k, NoRef)

\* a list of one stored and one missing key was fetched: the stored key maps
\* to its entity, the missing one to undefined
C22_OneFoundOneMissing ==
    \E t \in ListTasks :
        /\ t.pc = "track" /\ Len(t.keys) = 2 /\ Len(t.notCached) = 2
        /\ \E i, j \in DOMAIN t.result :
              /\ t.result[i] # NoRef /\ heap[t.result[i]].id = t.keys[i][hashKey]
              /\ t.result[j] = NoRef /\ t.keys[j][hashKey] \notin DOMAIN store

\* C23: the map DynamoRepository.getList returns is keyed by the key objects
\* it was given and has an entry for each of them, with undefined for a key
\* that has no item in the store.
C23_BaseListHasEveryKey ==
    \A t \in ListTasks :
        t.pc \notin {"batch", "collect", "track"} => DOMAIN t.response = DOMAIN t.notCached

\* the keys of the items of the region search sequence s reads, in store
\* order: those after its starting cursor that its filter lets through
Region(s) ==
    SelectSeq(Remaining(searches[s].input.ExclusiveStartKey),
              LAMBDA k : k \in searches[s].input.matching)
\* the pulls of sequence s that returned undefined
Sentinels(s) == {i \in DOMAIN searches[s].delivered : searches[s].delivered[i].key = Undef}

\* C24: pagination exhaustion.  The successive pulls of a search sequence
\* return the items of its region in store order, each once, whatever pages
\* the store cuts them into, then undefined; and from the first undefined on
\* no page is requested any more.
C24_PullsReturnRegionInOrder ==
    \A s \in DOMAIN searches :
        /\ \A i \in DOMAIN searches[s].delivered :
              searches[s].delivered[i].key =
                 (IF i <= Len(Region(s)) THEN Region(s)[i] ELSE Undef)
        /\ \A i \in Sentinels(s) :
              /\ searches[s].delivered[i].requests = Len(searches[s].requests)
              /\ \A t \in PullTasks : t.i = s => t.pc # "page"

\* two items served over at least two pages were pulled in order, and the
\* third pull returned undefined
C24_TwoItemsThenExhausted ==
    \E s \in DOMAIN searches :
        /\ Len(searches[s].delivered) = 3
        /\ searches[s].delivered[1].key = "a" /\ searches[s].delivered[2].key = "b"
        /\ searches[s].delivered[3].key = Undef
        /\ Len(searches[s].requests) >= 2

\* C25: a pull returns undefined only for an exhausted sequence.  A pull
\* that is about to return undefined leaves no item in the page buffer and a
\* source that is exhausted.
C25_SentinelOnlyWhenExhausted ==
    \A t \in PullTasks :
        (t.pc = "track" /\ t.result[1] = NoRef) =>
            /\ searches[t.i].batch = <<>>
            /\ searches[t.i].sourceIsEmpty


\* C26: sameKey is value equality over the attributes of both keys, and so
\* symmetric.  For any two key objects of a getList call, sameKey holds
\* exactly when they have the same attributes with equal values, in either
\* order of its arguments.
C26_SameKeyIsEquality ==
    \A t \in ListTasks : \A i, j \in DOMAIN t.keys :
        /\ sameKey(t.keys[i], t.keys[j]) <=> (t.keys[i] = t.keys[j])
        /\ sameKey(t.keys[i], t.keys[j]) <=> sameKey(t.keys[j], t.keys[i])


\* the entities a call hands out when it returns
ReturnedBy(t) ==
    IF t.type = "get"
    THEN IF promises[t.promise].state = "resolved" THEN {promises[t.promise].value} \ {NoRef}
         ELSE {}
    ELSE IF t.type \in {"getList", "pull"} /\ t.pc = "track"
    THEN {t.result[j] : j \in DOMAIN t.result} \ {NoRef}
    ELSE {}
\* this step is the return of call t
Returns(t) == tasks' = tasks (-) SetToBag({t})

\* C27: reads track what they return.  When a get, getList or search pull
\* returns, every entity it returns is tracked: one that was not tracked
\* enters with action UPDATE and its serialization as snapshot, one that was
\* tracked keeps its action and snapshot; and trackNew of a tracked entity
\* leaves its action and snapshot as they were.
C27_ReadsTrackOnce ==
    [][\A t \in DOMAIN tasks : Returns(t) =>
          /\ \A e \in ReturnedBy(t) :
                /\ e \in DOMAIN tracked'
                /\ tracked'[e] = IF e \in DOMAIN tracked THEN tracked[e]
                                 ELSE [action |-> "UPDATE",
                                       initialStatus |-> JsonStringify(heap[e])]
          /\ (t.type = "trackNew" /\ t.pc = "track" /\ t.entity \in DOMAIN tracked) =>
                /\ t.entity \in DOMAIN tracked'
                /\ tracked'[t.entity] = tracked[t.entity]]_vars
\* a search pull has returned the entity that trackNew seeded, and it is
\* still to be created
C27_SeededEntityPulled ==
    \E s \in DOMAIN searches : \E d \in DOMAIN searches[s].delivered : \E e \in DOMAIN tracked :
        /\ searches[s].delivered[d].key = heap[e].id
        /\ CachedAs(heap[e].id, e)
        /\ tracked[e].action = "CREATE"


\* C28: the tracked table.  The entries of the tracked table belong to entity
\* objects, one each; every entry has action CREATE, UPDATE or DELETE and
\* holds a snapshot exactly when its action is UPDATE; undefined, as a read
\* that found nothing or an exhausted search returns it, has no entry.
C28_TrackedTableIsWellFormed ==
    /\ DOMAIN tracked \subseteq DOMAIN heap
    /\ NoRef \notin DOMAIN tracked
    /\ \A e \in DOMAIN tracked :
          /\ tracked[e].action \in {"CREATE", "UPDATE", "DELETE"}
          /\ (tracked[e].initialStatus # NoStatus) <=> (tracked[e].action = "UPDATE")
\* an exhausted pull has returned, a read entity is marked for deletion and a
\* new one for creation
C28_AllKindsOfEntry ==
    /\ \E s \in DOMAIN searches : \E d \in DOMAIN searches[s].delivered :
          searches[s].delivered[d].key = Undef
    /\ \E e1, e2 \in DOMAIN tracked :
          /\ tracked[e1].action = "DELETE" /\ CachedAs(heap[e1].id, e1)
          /\ tracked[e2].action = "CREATE"


\* C29: the cursor protocol of a search sequence.  The first page request
\* carries the caller's ExclusiveStartKey (or none), every later one the
\* LastEvaluatedKey of the page before it, which was not undefined; all of
\* them are queries if the input has a key condition and scans otherwise;
\* each is sent with an empty page buffer, and after the answer to the one
\* before it.
C29_CursorProtocol ==
    \A s \in DOMAIN searches :
        LET g == searches[s] IN
        /\ Len(g.answers) <= Len(g.requests)
        /\ Len(g.requests) <= Len(g.answers) + 1
        /\ \A r \in DOMAIN g.requests :
              /\ g.requests[r].op = IF g.input.query THEN "query" ELSE "scan"
              /\ g.requests[r].buffered = 0
              /\ g.requests[r].cursor = IF r = 1 THEN g.input.ExclusiveStartKey
                                        ELSE g.answers[r - 1]
              /\ r > 1 => g.answers[r - 1] # Undef
\* a query took two pages, the second without a LastEvaluatedKey, and a pull
\* after the exhausted one has returned
C29_TwoPagesThenNoRequest ==
    \E s \in DOMAIN searches :
        LET g == searches[s] IN
        /\ g.input.query
        /\ Len(g.requests) = 2 /\ Len(g.answers) = 2
        /\ g.answers[2] = Undef
        /\ \E d \in DOMAIN g.delivered :
              d < Len(g.delivered) /\ g.delivered[d].key = Undef


\* this step starts a get(k) call
GetCalled(k) ==
    /\ calls' = calls + 1
    /\ \E t \in DOMAIN tasks' :
          /\ t.type = "get" /\ t.key = k
          /\ CopiesIn(t, tasks') > CopiesIn(t, tasks)

\* C30: no eviction.  A step that is not clear() leaves every cached key
\* cached; clear() leaves the cache empty; and a get(k) that finds no entry
\* for k, as every get after clear() does, sends a new point read and caches
\* its promise.
C30_OnlyClearEvicts ==
    [][/\ epoch' = epoch => DOMAIN cache \subseteq DOMAIN cache'
       /\ epoch' # epoch => DOMAIN cache' = {}
       /\ \A k \in Keys : (GetCalled(k) /\ k \notin DOMAIN cache) =>
             /\ Len(promises') = Len(promises) + 1
             /\ promises'[Len(promises')] = NewPromise("pending", NoRef, k, "read")
             /\ k \in DOMAIN cache' /\ cache'[k] = Len(promises')]_vars
\* two keys were cached, the cache was cleared, and a get of one of them has
\* sent a second read
C30_ReadAgainAfterClear ==
    \E p, q, r \in DOMAIN promises :
        /\ promises[p].epoch = 0 /\ promises[q].epoch = 0
        /\ promises[p].key # promises[q].key
        /\ promises[r].epoch = 1 /\ promises[r].kind = "read"
        /\ promises[r].key = promises[p].key
        /\ DOMAIN cache = {promises[r].key} /\ cache[promises[r].key] = r


\* C31: identity under interleaving.  With no clear in between, however the
\* read calls interleave, the entities they have returned and are about to
\* return for one key are one object.
C31_OneObjectPerKey ==
    \A e1, e2 \in (known \cup Returning) \ {NoRef} : heap[e1].id = heap[e2].id => e1 = e2


\* the requests of flush f are those of the entities it found to create, to
\* delete or changed, each with the payload of the entity as flush found it
SentAsFound(f) ==
    /\ \A i \in OpsOf(f) :
          LET e == ops[i].entity IN
          /\ e \in DOMAIN flushes[f].seen
          /\ ops[i].action = IF flushes[f].seen[e] = "changed" THEN "UPDATE"
                             ELSE flushes[f].seen[e]
          /\ ops[i].kind = "put" => ops[i].payload = marshal(flushes[f].entities[e])
          /\ ops[i].kind = "delete" => ops[i].payload = getEntityKey(marshal(heap[e]))
    /\ \A e \in DOMAIN flushes[f].seen :
          flushes[f].seen[e] \in {"CREATE", "DELETE", "changed"} =>
              Cardinality(OpsFor(f, e)) = 1

\* C32: flush dispatches at once.  Every request of a flush is sent by the
\* flush call itself with the payload of the entity's state and action at
\* that moment: whatever is tracked, changed or deleted while the requests
\* are unanswered, the flush has the same requests with the same payloads,
\* and the store writes the payload that was sent.
C32_FlushDispatchIsAtomic ==
    [][/\ \A f \in DOMAIN flushes :
             /\ {i \in DOMAIN ops' : ops'[i].flush = f} = OpsOf(f)
             /\ flushes'[f].seen = flushes[f].seen
             /\ flushes'[f].entities = flushes[f].entities
       /\ \A f \in DOMAIN flushes' : SentAsFound(f)'
       /\ \A i \in DOMAIN ops :
             /\ <<ops'[i].flush, ops'[i].entity, ops'[i].action, ops'[i].kind, ops'[i].payload>>
                  = <<ops[i].flush, ops[i].entity, ops[i].action, ops[i].kind, ops[i].payload>>
             /\ (ops[i].status = "pending" /\ ops'[i].status = "ok" /\ ops[i].kind = "put") =>
                   store'[ops[i].payload[hashKey]] = ops[i].payload]_vars
\* an entity was changed after a flush had sent its put, and the store has
\* written what the flush sent
C32_ChangedWhileInFlight ==
    \E i \in DOMAIN ops :
        /\ ops[i].kind = "put" /\ ops[i].status = "ok"
        /\ marshal(heap[ops[i].entity]) # ops[i].payload
        /\ ops[i].applied = Applied
        /\ store[ops[i].payload[hashKey]] = ops[i].payload


\* the point reads of the current cache epoch that the store failed
Failures == {p \in DOMAIN promises : /\ promises[p].kind = "read" /\ promises[p].epoch = epoch
                                      /\ promises[p].state = "rejected"}

\* C33: a failed read stays cached.  After the point read of get(k) failed,
\* and until the cache is cleared, its rejected promise stays the cache entry
\* of k and carries the store's error: every get(k), called before or after
\* the failure, waits on it and so fails with that error, and no other point
\* read is sent for k.
C33_FailureStaysCached ==
    \A p \in Failures :
        /\ promises[p].error = p
        /\ promises[p].key \in DOMAIN cache /\ cache[promises[p].key] = p
        /\ \A q \in DOMAIN promises :
              (promises[q].key = promises[p].key /\ promises[q].epoch = epoch) => q = p
        /\ \A t \in GetTasks :
              (t.key = promises[p].key /\ promises[t.promise].epoch = epoch) => t.promise = p
\* of two get calls for a key, one has failed with the error of the only
\* read and the other waits on the failed entry
C33_GetOnFailedEntry ==
    \E t \in GetTasks :
        /\ t.promise \in Failures
        /\ calls = 2 /\ Len(promises) = 1
        /\ tasks = SetToBag({t})


\* the number of pulls of sequence s that have not returned yet
Pulling(s) == BagCardinality([t \in {u \in PullTasks : u.i = s} |-> CopiesIn(t, tasks)])
\* no item is delivered by two pulls of sequence s
DeliversOnce(s) ==
    \A i, j \in DOMAIN searches[s].delivered :
        (/\ searches[s].delivered[i].key # Undef
         /\ searches[s].delivered[i].key = searches[s].delivered[j].key) => i = j
\* no page of sequence s is requested twice
RequestsOnce(s) ==
    \A q, r \in DOMAIN searches[s].requests :
        searches[s].requests[q].cursor = searches[s].requests[r].cursor => q = r
\* every pull of sequence s has returned or is still running
NoPullFailed(s) == searches[s].pulls = Len(searches[s].delivered) + Pulling(s)

\* C34: concurrent pulls.  However many pulls of one search sequence are
\* running at a time, no item of the region is delivered twice, no page is
\* requested twice and no pull fails.
C34_ConcurrentPullsAreSafe ==
    \A s \in DOMAIN searches : DeliversOnce(s) /\ RequestsOnce(s) /\ NoPullFailed(s)


\* C35: one write per key.  No two tracked entities have the same key, so no
\* flush sends two requests for one key.
C35_OneWritePerKey ==
    /\ \A e1, e2 \in DOMAIN tracked : heap[e1].id = heap[e2].id => e1 = e2
    /\ \A i, j \in DOMAIN ops :
          (/\ ops[i].flush = ops[j].flush
           /\ ops[i].payload[hashKey] = ops[j].payload[hashKey]) => i = j


\* this step is a delete(e) call
Deletes == tracked' # tracked /\ tasks' = tasks
\* this step is the store's answer to a delete request
AnswersDelete ==
    \E i \in DOMAIN ops : ops[i].kind = "delete" /\ ops'[i].status # ops[i].status

\* C36: delete leaves the cache alone.  delete(e) and the store's answer to
\* the delete request of a flush change neither the cache nor its promises;
\* a get of the key of a cached entity that is marked for deletion takes
\* the cached promise, which has resolved to that entity, and sends no read.
C36_DeleteKeepsCacheEntry ==
    [][/\ (Deletes \/ AnswersDelete) => (cache' = cache /\ promises' = promises)
       /\ \A k \in Keys : \A e \in DOMAIN tracked :
             (CachedAs(k, e) /\ tracked[e].action = "DELETE" /\ GetCalled(k)) =>
                 /\ promises' = promises /\ cache' = cache
                 /\ \E t \in DOMAIN tasks' :
                       /\ CopiesIn(t, tasks') > CopiesIn(t, tasks)
                       /\ t.promise = cache[k]]_vars
\* the item of a read entity was deleted from the store by a flush, and a
\* get of its key now waits on the cache entry that holds the entity
C36_GetAfterDeleteFlushed ==
    \E t \in GetTasks : \E i \in DOMAIN ops :
        /\ ops[i].kind = "delete" /\ ops[i].status = "ok"
        /\ ops[i].payload[hashKey] = t.key
        /\ t.key \notin DOMAIN store
        /\ CachedAs(t.key, ops[i].entity) /\ t.promise = cache[t.key]
        /\ tracked[ops[i].entity].action = "DELETE"


\* delete(e) was called after trackNew(e)
Deleted(e) == e \in cancelled \/ (e \in DOMAIN tracked /\ tracked[e].action = "DELETE")

\* C37: cancelling a create.  Whether delete(e) is called after trackNew(e)
\* has completed or while it is suspended, once both are done e is not
\* tracked, and no flush sends a delete request for it.
C37_CancelIgnoresInterleaving ==
    /\ \A e \in DOMAIN heap :
          (Deleted(e) /\ ~\E t \in DOMAIN tasks : t.type = "trackNew" /\ t.entity = e)
              => e \notin DOMAIN tracked
    /\ \A i \in DOMAIN ops : ops[i].action # "DELETE"


\* this step is a clearTrackedEntities() call
Resets == tracked # NoTracked /\ tracked' = NoTracked

\* C38: a reset re-baselines.  clearTrackedEntities() leaves nothing
\* tracked and sends nothing; a flush that finds nothing tracked, or only
\* unchanged entities, sends no request; and an untracked entity that a get
\* returns, from the cache or not, is tracked as UPDATE with its present
\* state as snapshot, so that it counts as unchanged until it changes again.
C38_ResetRebaselines ==
    [][/\ Resets => (ops' = ops /\ cache' = cache /\ heap' = heap)
       /\ \A f \in DOMAIN flushes' :
             (\A e \in DOMAIN flushes'[f].seen :
                  flushes'[f].seen[e] \in {"cancelled", "unchanged"})
                 => \A i \in DOMAIN ops' : ops'[i].flush # f
       /\ \A t \in GetTasks : Returns(t) =>
             \A e \in ReturnedBy(t) \ DOMAIN tracked :
                 /\ tracked'[e] = [action |-> "UPDATE", initialStatus |-> JsonStringify(heap[e])]
                 /\ ~entityHasChanged(e)']_vars
\* an entity was read and changed, tracking was reset, the entity was read
\* again from the cache, and a flush found it unchanged: the change is not in
\* the store
C38_ChangeDroppedByReset ==
    \E e \in DOMAIN tracked : \E f \in DOMAIN flushes :
        /\ tracked[e].action = "UPDATE"
        /\ tracked[e].initialStatus = JsonStringify(heap[e])
        /\ heap[e].id \in DOMAIN store /\ store[heap[e].id] # marshal(heap[e])
        /\ CachedAs(heap[e].id, e)
        /\ SeenAs(f, e, "unchanged")
        /\ \A i \in DOMAIN ops : ops[i].entity # e

====
